---- MODULE Spec2Model ----
(***************************************************************************)
(* Model of the gender-bias analysis core of bollywood-bias-buster:        *)
(* the character extractor and the bias scorer of                          *)
(* models/bias_detection_model.py (ComprehensiveGenderBiasDetector), the   *)
(* rewrite engine of models/bias_rewriter.py (LLMBiasRewriter) with the    *)
(* rubric of evaluation/metrics_evaluator.py, the batch drivers of         *)
(* scripts/analyze_full_dataset.py, and the trained-state protocol of      *)
(* models/bias_classifier.py (BiasClassifier).                             *)
(*                                                                         *)
(* Texts are TLA+ strings; a character of a text is the one-character      *)
(* string SubSeq(s, i, i).  Python floats are modelled as exact rationals  *)
(* <<numerator, denominator>> in lowest terms with a positive denominator. *)
(***************************************************************************)
EXTENDS Integers, Sequences, FiniteSets, TLC

VARIABLES text, characters, scores, pc,
          bias_types, rng, llm, results, profession_additions,
          units, calls, num_alternatives, count,
          classifier, files

\* text, characters, scores: input and outputs of the detector;
\* pc: the position of the caller;
\* bias_types: the flagged dimensions passed to the rewriter;
\* rng: the state of the module-level generator of Python's random;
\* llm: what the hosted language-model call does when it is made;
\* results: the value returned (or the exception raised) by the entry point;
\* profession_additions: the list
\*     LLMBiasRewriter.rewrite_patterns['occupation_gap']['profession_additions'];
\* units: the units of a batch (texts or movies);
\* calls: the number of entry-point calls made on the rewriter;
\* num_alternatives: the argument of rewrite_multiple_alternatives;
\* count: the argument of generate_multiple_rewrites;
\* classifier: the fields of the BiasClassifier object;
\* files: the model files written by joblib.dump, by file path
vars == <<text, characters, scores, pc,
          bias_types, rng, llm, results, profession_additions,
          units, calls, num_alternatives, count, classifier, files>>

\* the variables of the classifier, which detector and rewriter leave alone
classifier_vars == <<classifier, files>>

\* the variables of the rewriter and of the batch drivers, which the
\* detector leaves alone
rewriter_vars == <<bias_types, rng, llm, results, profession_additions,
                   units, calls, num_alternatives, count>>

\* the hosted language model has not been called
NotCalled == [kind |-> "none", content |-> ""]

\* no rewriter has been constructed
NoRewriter ==
    /\ bias_types = <<>>
    /\ rng = <<>>
    /\ llm = NotCalled
    /\ results = <<>>
    /\ profession_additions = <<>>
    /\ units = <<>>
    /\ calls = 0
    /\ num_alternatives = 0
    /\ count = 0

\* no classifier has been constructed and no model file written
NoClassifier ==
    /\ classifier = <<>>
    /\ files = <<>>

(***************************************************************************)
(* Bounds of the explored inputs.                                          *)
(***************************************************************************)
MaxChars == 3
MaxFragments == 2

(***************************************************************************)
(* Exact rational arithmetic standing for Python float arithmetic.         *)
(***************************************************************************)
Abs(n) == IF n < 0 THEN -n ELSE n

RECURSIVE GCD(_, _)
GCD(a, b) == IF b = 0 THEN a ELSE GCD(b, a % b)

Rat(n, d) ==
    IF n = 0 THEN <<0, 1>>
    ELSE LET g == GCD(Abs(n), d) IN <<n \div g, d \div g>>

Zero == <<0, 1>>

RAdd(a, b) == Rat(a[1] * b[2] + b[1] * a[2], a[2] * b[2])
RSub(a, b) == Rat(a[1] * b[2] - b[1] * a[2], a[2] * b[2])
RTimes(a, k) == Rat(a[1] * k, a[2])
RLess(a, b) == a[1] * b[2] < b[1] * a[2]
RLeq(a, b) == a[1] * b[2] <= b[1] * a[2]

\* max(0, x)
Max0(a) == IF a[1] > 0 THEN a ELSE Zero

RECURSIVE RSum(_)
RSum(s) == IF s = <<>> THEN Zero ELSE RAdd(Head(s), RSum(Tail(s)))

\* np.mean over a non-empty list of numbers
RMean(s) == LET t == RSum(s) IN Rat(t[1], t[2] * Len(s))

\* [c.agency_level for c in chars]
AgencyLevels(chars) == [i \in 1..Len(chars) |-> Rat(chars[i].agency_level, 1)]

\* [len(c.appearance_descriptions) for c in chars]
AppearanceCounts(chars) ==
    [i \in 1..Len(chars) |-> Rat(Len(chars[i].appearance_descriptions), 1)]

\* sum(1 for c in chars if c.professions)
CountWithProfession(chars) ==
    Cardinality({i \in 1..Len(chars) : chars[i].professions # <<>>})

\* sum(c.dialogue_count for c in chars)
RECURSIVE SumDialogue(_)
SumDialogue(chars) ==
    IF chars = <<>> THEN 0
    ELSE Head(chars).dialogue_count + SumDialogue(Tail(chars))

(***************************************************************************)
(* Data model.                                                             *)
(***************************************************************************)
Genders == {"female", "male", "unknown"}

Character(n, g, p, r, a, ap, d, st) ==
    [name |-> n, gender |-> g, professions |-> p, relationships |-> r,
     agency_level |-> a, appearance_descriptions |-> ap,
     dialogue_count |-> d, screen_time |-> st]

BiasScores(og, ag, af, rd, di, sti, ov) ==
    [occupation_gap |-> og, agency_gap |-> ag, appearance_focus |-> af,
     relationship_defining |-> rd, dialogue_imbalance |-> di,
     screen_time_imbalance |-> sti, overall |-> ov]

NoScores == "none"

(***************************************************************************)
(* String helpers: the Python str and re operations the extractor uses.    *)
(***************************************************************************)
Ch(s, i) == SubSeq(s, i, i)

CharsOf(s) == {Ch(s, i) : i \in 1..Len(s)}

UpperChars == "ABCDEFGHIJKLMNOPQRSTUVWXYZ"
LowerChars == "abcdefghijklmnopqrstuvwxyz"
DigitChars == "0123456789"

UpperSet == CharsOf(UpperChars)
LowerSet == CharsOf(LowerChars)

\* \w of the regular expressions
WordChars == UpperSet \cup LowerSet \cup CharsOf(DigitChars) \cup {"_"}

\* the characters str.split() and str.strip() treat as whitespace
Whitespace == {" ", "\n", "\t", "\r", "\f"}

LowerMap ==
    [c \in UpperSet |->
        Ch(LowerChars, CHOOSE i \in 1..26 : Ch(UpperChars, i) = c)]
UpperMap ==
    [c \in LowerSet |->
        Ch(UpperChars, CHOOSE i \in 1..26 : Ch(LowerChars, i) = c)]

ToLower(c) == IF c \in UpperSet THEN LowerMap[c] ELSE c
ToUpper(c) == IF c \in LowerSet THEN UpperMap[c] ELSE c

\* The conversions map the text character by character; the recursion
\* halves the range to keep the evaluation shallow.
RECURSIVE LowerRange(_, _, _)
LowerRange(s, a, b) ==
    IF a > b THEN ""
    ELSE IF a = b THEN ToLower(Ch(s, a))
    ELSE LET m == (a + b) \div 2
         IN  LowerRange(s, a, m) \o LowerRange(s, m + 1, b)

\* str.lower()
lower(s) == LowerRange(s, 1, Len(s))

RECURSIVE UpperRange(_, _, _)
UpperRange(s, a, b) ==
    IF a > b THEN ""
    ELSE IF a = b THEN ToUpper(Ch(s, a))
    ELSE LET m == (a + b) \div 2
         IN  UpperRange(s, a, m) \o UpperRange(s, m + 1, b)

\* str.upper()
upper(s) == UpperRange(s, 1, Len(s))

\* sub in s
Contains(s, sub) ==
    \E i \in 1..(Len(s) - Len(sub) + 1) : SubSeq(s, i, i + Len(sub) - 1) = sub

\* s.startswith(prefix)
StartsWith(s, prefix) ==
    Len(prefix) <= Len(s) /\ SubSeq(s, 1, Len(prefix)) = prefix

Min(S) == CHOOSE m \in S : \A k \in S : m <= k

\* the positions at which sub occurs in s
Occurrences(s, sub) ==
    {i \in 1..(Len(s) - Len(sub) + 1) : SubSeq(s, i, i + Len(sub) - 1) = sub}

RECURSIVE CountFrom(_, _, _)
\* the leftmost occurrence at or after i is counted, the scan resumes
\* behind it
CountFrom(occ, width, i) ==
    LET later == {m \in occ : m >= i} IN
    IF later = {} THEN 0
    ELSE 1 + CountFrom(occ, width, Min(later) + width)

\* s.count(sub): the number of non-overlapping occurrences of sub
Count(s, sub) == CountFrom(Occurrences(s, sub), Len(sub), 1)

RECURSIVE Join(_, _)
\* sep.join(parts)
Join(parts, sep) ==
    IF parts = <<>> THEN ""
    ELSE IF Len(parts) = 1 THEN parts[1]
    ELSE parts[1] \o sep \o Join(Tail(parts), sep)

RECURSIVE SplitFrom(_, _, _)
\* the pieces of s from position start on, cut at every delimiter
SplitFrom(s, delims, start) ==
    LET later == {i \in start..Len(s) : Ch(s, i) \in delims} IN
    IF later = {} THEN <<SubSeq(s, start, Len(s))>>
    ELSE LET d == Min(later)
         IN  <<SubSeq(s, start, d - 1)>> \o SplitFrom(s, delims, d + 1)

\* s.split('\n')
SplitLines(s) == SplitFrom(s, {"\n"}, 1)

RECURSIVE SplitRunsFrom(_, _, _)
\* the pieces of s from position start on, cut at every maximal run of
\* delimiters
SplitRunsFrom(s, delims, start) ==
    LET later == {i \in start..Len(s) : Ch(s, i) \in delims} IN
    IF later = {} THEN <<SubSeq(s, start, Len(s))>>
    ELSE LET d == Min(later)
             after == Min({j \in (d + 1)..(Len(s) + 1) :
                              j = Len(s) + 1 \/ Ch(s, j) \notin delims})
         IN  <<SubSeq(s, start, d - 1)>> \o SplitRunsFrom(s, delims, after)

\* re.split(r'[.!?]+', s)
SplitSentences(s) == SplitRunsFrom(s, {".", "!", "?"}, 1)

\* s.strip()
strip(s) ==
    LET inner == {i \in 1..Len(s) : Ch(s, i) \notin Whitespace} IN
    IF inner = {} THEN ""
    ELSE SubSeq(s, Min(inner), CHOOSE m \in inner : \A k \in inner : k <= m)

\* len(s.split())
WordCount(s) ==
    Cardinality({i \in 1..Len(s) :
                    /\ Ch(s, i) \notin Whitespace
                    /\ i = 1 \/ Ch(s, i - 1) \in Whitespace})

\* the end of the match of \b[A-Z][a-z]+\b that starts at i, 0 when there
\* is none: an upper-case letter after a non-word character (or the start),
\* then the longest run of lower-case letters, of length at least 1,
\* followed by a non-word character (or the end)
NameEndAt(s, i) ==
    IF /\ Ch(s, i) \in UpperSet
       /\ i = 1 \/ Ch(s, i - 1) \notin WordChars
    THEN LET end == Min({j \in i..Len(s) :
                            j = Len(s) \/ Ch(s, j + 1) \notin LowerSet})
         IN  IF end > i /\ (end = Len(s) \/ Ch(s, end + 1) \notin WordChars)
             THEN end ELSE 0
    ELSE 0

RECURSIVE NamesAt(_, _)
\* the matches that start at the given positions, by position
NamesAt(s, starts) ==
    IF starts = {} THEN <<>>
    ELSE LET i == Min(starts)
         IN  <<SubSeq(s, i, NameEndAt(s, i))>> \o NamesAt(s, starts \ {i})

\* re.findall(r'\b[A-Z][a-z]+\b', s): matches consist of word characters
\* and start behind a non-word character, so no match starts inside
\* another and the left-to-right scan returns every match, by position.
FindNames(s) == NamesAt(s, {i \in 1..Len(s) : NameEndAt(s, i) > 0})

(***************************************************************************)
(* Indicator taxonomy (ComprehensiveGenderBiasDetector.__init__).          *)
(***************************************************************************)
female_names ==
    {"priya", "simran", "rani", "meera", "sonia", "kavya", "anjali",
     "pooja", "neha", "ritu", "deepika", "kareena", "aishwarya"}

male_names ==
    {"raj", "rohit", "vijay", "arjun", "rahul", "amit", "suresh",
     "ravi", "kumar", "dev", "shah", "khan", "sharma"}

professions ==
    <<"doctor", "engineer", "teacher", "lawyer", "businessman",
      "scientist", "artist", "writer", "director", "manager",
      "housewife", "student", "nurse", "secretary">>

appearance_words ==
    <<"beautiful", "pretty", "gorgeous", "stunning", "attractive",
      "handsome", "charming", "elegant", "lovely", "cute">>

relationship_indicators ==
    <<"daughter of", "son of", "wife of", "husband of",
      "mother of", "father of", "girlfriend", "boyfriend",
      "sister of", "brother of">>

active_verbs ==
    <<"decides", "chooses", "leads", "creates", "builds", "fights", "runs",
      "manages">>

passive_indicators ==
    <<"waits for", "depends on", "needs permission", "asks for help">>

common_words == {"The", "And", "But", "For", "With", "From", "This", "That"}

\* the candidate list is cut to its first TopNames entries
TopNames == 10

(***************************************************************************)
(* Character extractor.                                                    *)
(***************************************************************************)
\* [k for k in keywords if k in text.lower()]
KeywordsIn(keywords, txt) ==
    LET text_lower == lower(txt)
        Present(k) == Contains(text_lower, k)
    IN  SelectSeq(keywords, Present)

_detect_gender(name, context) ==
    LET name_lower == lower(name) IN
    IF \E fn \in female_names : Contains(name_lower, fn) THEN "female"
    ELSE IF \E mn \in male_names : Contains(name_lower, mn) THEN "male"
    ELSE LET context_lower == lower(context)
             female_pronouns ==
                 Count(context_lower, "she") + Count(context_lower, "her")
             male_pronouns ==
                 Count(context_lower, "he") + Count(context_lower, "him")
         IN  IF female_pronouns > male_pronouns THEN "female"
             ELSE IF male_pronouns > female_pronouns THEN "male"
             ELSE "unknown"

_find_professions(txt) == KeywordsIn(professions, txt)

_find_relationships(txt) == KeywordsIn(relationship_indicators, txt)

_find_appearance_descriptions(txt) == KeywordsIn(appearance_words, txt)

\* Mutant: the score is not capped at 10.
_calculate_agency_level_NoCap(txt) ==
    LET agency_score ==
            5 + Len(KeywordsIn(active_verbs, txt))
              - Len(KeywordsIn(passive_indicators, txt))
    IN  IF agency_score > 1 THEN agency_score ELSE 1

_calculate_agency_level(txt) ==
    LET agency_score ==
            5 + Len(KeywordsIn(active_verbs, txt))
              - Len(KeywordsIn(passive_indicators, txt))
        capped == IF agency_score < 10 THEN agency_score ELSE 10
    IN  IF capped > 1 THEN capped ELSE 1

_count_dialogue(name, txt) ==
    LET lines == SplitLines(txt)
    IN  Cardinality({i \in 1..Len(lines) :
                        StartsWith(upper(strip(lines[i])), upper(name))})

_estimate_screen_time(name, txt) ==
    LET mentions == Count(lower(txt), lower(name))
        total_words == WordCount(txt)
    IN  Rat(mentions * 100, IF total_words > 1 THEN total_words ELSE 1)

\* the sentences of the text that mention the name, joined by a blank
character_sentences(name, txt) ==
    LET Mentions(sn) == Contains(lower(sn), lower(name))
    IN  SelectSeq(SplitSentences(txt), Mentions)

NoCharacter == [name |-> ""]

_analyze_character(name, txt) ==
    LET sentences == character_sentences(name, txt) IN
    IF sentences = <<>> THEN NoCharacter
    ELSE LET character_text == Join(sentences, " ")
         IN  Character(name,
                       _detect_gender(name, character_text),
                       _find_professions(character_text),
                       _find_relationships(character_text),
                       _calculate_agency_level(character_text),
                       _find_appearance_descriptions(character_text),
                       _count_dialogue(name, txt),
                       _estimate_screen_time(name, txt))

RECURSIVE Distinct(_, _)
\* the keys of name_counts in insertion order
Distinct(words, seen) ==
    IF words = <<>> THEN <<>>
    ELSE IF Head(words) \in seen THEN Distinct(Tail(words), seen)
    ELSE <<Head(words)>> \o Distinct(Tail(words), seen \cup {Head(words)})

name_count(words, name) ==
    Cardinality({i \in 1..Len(words) : words[i] = name})

\* Mutant: a single occurrence is enough for a name to be a candidate.
potential_names_Once(txt) ==
    LET words == FindNames(txt)
        Likely(name) == name_count(words, name) >= 1 /\ name \notin common_words
    IN  SelectSeq(Distinct(words, {}), Likely)

potential_names(txt) ==
    LET words == FindNames(txt)
        Likely(name) == name_count(words, name) >= 2 /\ name \notin common_words
    IN  SelectSeq(Distinct(words, {}), Likely)

extract_characters_advanced(txt) ==
    LET names == potential_names(txt)
        top == SubSeq(names, 1, IF Len(names) < TopNames THEN Len(names)
                                ELSE TopNames)
        analyzed == [i \in 1..Len(top) |-> _analyze_character(top[i], txt)]
        Found(c) == c.name # NoCharacter.name
    IN  SelectSeq(analyzed, Found)

(***************************************************************************)
(* Bias scorer.                                                            *)
(***************************************************************************)
IsFemale(c) == c.gender = "female"
IsMale(c) == c.gender = "male"
HasProfession(c) == c.professions # <<>>

female_chars(chars) == SelectSeq(chars, IsFemale)

\* Mutant: every character that is not female is taken as male.
male_chars_NotFemale(chars) ==
    LET NotFemale(c) == c.gender # "female" IN SelectSeq(chars, NotFemale)

male_chars(chars) == SelectSeq(chars, IsMale)

\* Mutant: the guard on an empty female subset is missing (the female rate
\* of an empty subset taken as 0).
_calculate_occupation_gap_NoGuard(fc, mc) ==
    LET female_with_prof == CountWithProfession(fc)
        male_with_prof == CountWithProfession(mc)
        female_prof_rate ==
            Rat(female_with_prof, IF Len(fc) > 1 THEN Len(fc) ELSE 1)
        male_prof_rate ==
            Rat(male_with_prof, IF Len(mc) > 1 THEN Len(mc) ELSE 1)
    IN  Max0(RTimes(RSub(male_prof_rate, female_prof_rate), 100))

\* Mutant: the difference is taken the other way round.
_calculate_occupation_gap_Swapped(fc, mc) ==
    IF fc = <<>> THEN Zero
    ELSE LET female_with_prof == CountWithProfession(fc)
             male_with_prof == CountWithProfession(mc)
             female_prof_rate == Rat(female_with_prof, Len(fc))
             male_prof_rate ==
                 Rat(male_with_prof, IF Len(mc) > 1 THEN Len(mc) ELSE 1)
         IN  Max0(RTimes(RSub(female_prof_rate, male_prof_rate), 100))

_calculate_occupation_gap(fc, mc) ==
    IF fc = <<>> THEN Zero
    ELSE LET female_with_prof == CountWithProfession(fc)
             male_with_prof == CountWithProfession(mc)
             female_prof_rate == Rat(female_with_prof, Len(fc))
             male_prof_rate ==
                 Rat(male_with_prof, IF Len(mc) > 1 THEN Len(mc) ELSE 1)
         IN  Max0(RTimes(RSub(male_prof_rate, female_prof_rate), 100))

_calculate_agency_gap(fc, mc) ==
    IF fc = <<>> THEN Zero
    ELSE LET avg_female_agency == RMean(AgencyLevels(fc))
             avg_male_agency ==
                 IF mc # <<>> THEN RMean(AgencyLevels(mc)) ELSE Rat(5, 1)
         IN  Max0(RTimes(RSub(avg_male_agency, avg_female_agency), 10))

_calculate_appearance_focus(fc, mc) ==
    IF fc = <<>> THEN Zero
    ELSE LET female_appearance == RMean(AppearanceCounts(fc))
             male_appearance ==
                 IF mc # <<>> THEN RMean(AppearanceCounts(mc)) ELSE Zero
         IN  Max0(RTimes(RSub(female_appearance, male_appearance), 25))

_calculate_relationship_defining(fc) ==
    IF fc = <<>> THEN Zero
    ELSE LET relationship_focused ==
                 Cardinality({i \in 1..Len(fc) :
                                 /\ fc[i].relationships # <<>>
                                 /\ fc[i].professions = <<>>})
         IN  RTimes(Rat(relationship_focused, Len(fc)), 100)

\* Mutant: the expected share is computed against the male count instead of
\* the count of female and male characters together.
_calculate_dialogue_imbalance_Share(fc, mc) ==
    IF fc = <<>> \/ mc = <<>> THEN Zero
    ELSE LET total_female_dialogue == SumDialogue(fc)
             total_male_dialogue == SumDialogue(mc)
             total_dialogue == total_female_dialogue + total_male_dialogue
         IN  IF total_dialogue = 0 THEN Zero
             ELSE LET female_dialogue_ratio ==
                          Rat(total_female_dialogue, total_dialogue)
                      expected_ratio == Rat(Len(fc), Len(mc))
                  IN  Max0(RTimes(RSub(expected_ratio,
                                       female_dialogue_ratio), 100))

_calculate_dialogue_imbalance(fc, mc) ==
    IF fc = <<>> \/ mc = <<>> THEN Zero
    ELSE LET total_female_dialogue == SumDialogue(fc)
             total_male_dialogue == SumDialogue(mc)
             total_dialogue == total_female_dialogue + total_male_dialogue
         IN  IF total_dialogue = 0 THEN Zero
             ELSE LET female_dialogue_ratio ==
                          Rat(total_female_dialogue, total_dialogue)
                      expected_ratio == Rat(Len(fc), Len(fc) + Len(mc))
                  IN  Max0(RTimes(RSub(expected_ratio,
                                       female_dialogue_ratio), 100))

_calculate_screen_time_imbalance(fc, mc) ==
    IF fc = <<>> \/ mc = <<>> THEN Zero
    ELSE LET avg_female_screen_time ==
                 RMean([i \in 1..Len(fc) |-> fc[i].screen_time])
             avg_male_screen_time ==
                 RMean([i \in 1..Len(mc) |-> mc[i].screen_time])
         IN  Max0(RTimes(RSub(avg_male_screen_time,
                              avg_female_screen_time), 2))

\* Mutant: the mean leaves the screen-time dimension out.
overall_of_FiveOnly(og, ag, af, rd, di, sti) == RMean(<<og, ag, af, rd, di>>)

\* np.mean of the six dimension values
overall_of(og, ag, af, rd, di, sti) == RMean(<<og, ag, af, rd, di, sti>>)

calculate_comprehensive_bias_scores(chars) ==
    IF chars = <<>> THEN BiasScores(Zero, Zero, Zero, Zero, Zero, Zero, Zero)
    ELSE LET fc == female_chars(chars)
             mc == male_chars(chars)
             og == _calculate_occupation_gap(fc, mc)
             ag == _calculate_agency_gap(fc, mc)
             af == _calculate_appearance_focus(fc, mc)
             rd == _calculate_relationship_defining(fc)
             di == _calculate_dialogue_imbalance(fc, mc)
             sti == _calculate_screen_time_imbalance(fc, mc)
         IN  BiasScores(og, ag, af, rd, di, sti,
                        overall_of(og, ag, af, rd, di, sti))

(***************************************************************************)
(* Scoring specification: a caller builds a character list and scores it.  *)
(***************************************************************************)
\* Evidence carried by the characters of the explored lists:
\* <<agency level, appearance descriptors, dialogue count, screen time>>.
Profiles ==
    { <<1, appearance_words, 0, Rat(0, 1)>>,
      <<5, <<"beautiful">>, 1, Rat(25, 1)>>,
      <<10, <<>>, 3, Rat(100, 1)>> }

NameOf(g) == CASE g = "female" -> "Priya" [] g = "male" -> "Raj"
                  [] OTHER -> "Saxena"

CharPool ==
    { Character(NameOf("female"), "female", p, r, e[1], e[2], e[3], e[4]) :
        p \in {<<>>, <<"doctor">>}, r \in {<<>>, <<"daughter of">>},
        e \in Profiles }
    \cup
    { Character(NameOf("male"), "male", p, <<>>, e[1], e[2], e[3], e[4]) :
        p \in {<<>>, <<"doctor">>}, e \in Profiles }
    \cup
    { Character(NameOf("unknown"), "unknown", <<"doctor">>, <<>>,
                10, <<>>, 3, Rat(100, 1)),
      Character(NameOf("unknown"), "unknown", <<>>, <<"daughter of">>,
                1, appearance_words, 0, Rat(0, 1)) }

Init ==
    /\ text = ""
    /\ characters = <<>>
    /\ scores = NoScores
    /\ pc = "input"
    /\ NoRewriter
    /\ NoClassifier

AddCharacter(c) ==
    /\ pc = "input"
    /\ Len(characters) < MaxChars
    /\ characters' = Append(characters, c)
    /\ UNCHANGED <<text, scores, pc>>
    /\ UNCHANGED rewriter_vars
    /\ UNCHANGED classifier_vars

CalculateScores ==
    /\ pc = "input"
    /\ scores' = calculate_comprehensive_bias_scores(characters)
    /\ pc' = "scored"
    /\ UNCHANGED <<text, characters>>
    /\ UNCHANGED rewriter_vars
    /\ UNCHANGED classifier_vars

Next ==
    \/ \E c \in CharPool : AddCharacter(c)
    \/ CalculateScores

Spec == Init /\ [][Next]_vars

(***************************************************************************)
(* Extraction specification: a caller passes a text to                     *)
(* extract_characters_advanced or to analyze_movie_script.                 *)
(***************************************************************************)
SoniaSample ==
    "Sonia Saxena, daughter of Mr Saxena, is beautiful and comes from a wealthy family"

DrSoniaSample ==
    "Dr. Sonia Saxena, a cardiologist and daughter of Mr Saxena, decides to open her own clinic"

\* the two sample inputs of the evaluation ground truth
Samples == {SoniaSample, DrSoniaSample}

Fragments ==
    { "The Al Bo Cy Di Ed Flo. The Al Bo Cy Di Ed Flo.",
      "Gus Hal Ida Jo Kim Lu! Gus Hal Ida Jo Kim Lu?",
      "The Raj met Rani. The Rani thanked Raj.",
      "Maya smiled. Maya said she leads.",
      "Maya met him. Maya waits for him.",
      "Maya is a sheriff. Maya runs.",
      "Sonia is pretty. Sonia, wife of Raj, is a nurse." }

RECURSIVE TextsOf(_)
\* the texts made of k fragments, one fragment per line
TextsOf(k) ==
    IF k = 1 THEN Fragments
    ELSE {t \o "\n" \o f : t \in TextsOf(k - 1), f \in Fragments}

\* a script about one woman: two appearance words, a relationship and three
\* passive phrases
BandEdgeSample ==
    "Sonia is beautiful and pretty. Sonia, wife of Raj, waits for him, depends on him and needs permission."

\* the explored inputs: the empty text, the samples and the texts made of
\* at most MaxFragments fragments
Texts ==
    {"", BandEdgeSample} \cup Samples
    \cup UNION {TextsOf(k) : k \in 1..MaxFragments}

InitExtract ==
    /\ text \in Texts
    /\ characters = <<>>
    /\ scores = NoScores
    /\ pc = "input"
    /\ NoRewriter
    /\ NoClassifier

ExtractCharacters ==
    /\ pc = "input"
    /\ characters' = extract_characters_advanced(text)
    /\ pc' = "extracted"
    /\ UNCHANGED <<text, scores>>
    /\ UNCHANGED rewriter_vars
    /\ UNCHANGED classifier_vars

\* the 'bias_level' entry of the summary
bias_level(overall) ==
    IF RLess(Rat(60, 1), overall) THEN "high"
    ELSE IF RLess(Rat(30, 1), overall) THEN "medium"
    ELSE "low"

\* the 'summary' entry of the dictionary returned by analyze_movie_script
summary(chars, bias_scores) ==
    [total_characters |-> Len(chars),
     female_characters |-> Len(female_chars(chars)),
     male_characters |-> Len(male_chars(chars)),
     bias_level |-> bias_level(bias_scores.overall)]

AnalyzeMovieScript ==
    /\ pc = "input"
    /\ characters' = extract_characters_advanced(text)
    /\ scores' = calculate_comprehensive_bias_scores(characters')
    /\ results' = <<summary(characters', scores')>>
    /\ pc' = "analyzed"
    /\ UNCHANGED <<text, bias_types, rng, llm, profession_additions, units,
                   calls, num_alternatives, count>>
    /\ UNCHANGED classifier_vars

NextExtract ==
    \/ ExtractCharacters
    \/ AnalyzeMovieScript

SpecExtract == InitExtract /\ [][NextExtract]_vars

(***************************************************************************)
(* Properties of the bias scorer, checked under Spec.                      *)
(***************************************************************************)
Scored == pc = "scored"

NumFemale == Cardinality({i \in 1..Len(characters) : IsFemale(characters[i])})
NumMale == Cardinality({i \in 1..Len(characters) : IsMale(characters[i])})

Dimensions ==
    <<scores.occupation_gap, scores.agency_gap, scores.appearance_focus,
      scores.relationship_defining, scores.dialogue_imbalance,
      scores.screen_time_imbalance>>

\* C1: a character list without any female character (the empty list, or
\* only male and unknown characters) scores 0 on all six dimensions and on
\* overall.
C1_NoFemaleAllZero ==
    (Scored /\ NumFemale = 0) =>
        /\ \A i \in 1..6 : Dimensions[i] = Zero
        /\ scores.overall = Zero

C1_Witness ==
    /\ Scored
    /\ NumFemale = 0
    /\ \E i \in 1..Len(characters) :
           IsMale(characters[i]) /\ HasProfession(characters[i])
    /\ \E i \in 1..Len(characters) : characters[i].gender = "unknown"

\* C2: overall is exactly the arithmetic mean of the six dimensions of the
\* same result: 6 * overall equals their sum.
C2_OverallIsMean ==
    Scored =>
        RTimes(scores.overall, 6) =
            RAdd(RAdd(RAdd(Dimensions[1], Dimensions[2]),
                      RAdd(Dimensions[3], Dimensions[4])),
                 RAdd(Dimensions[5], Dimensions[6]))

C2_Witness ==
    /\ Scored
    /\ scores.overall # Zero
    /\ scores.screen_time_imbalance # Zero
    /\ \E i, j \in 1..6 : Dimensions[i] # Dimensions[j]

\* The characters of the list satisfy the ranges of the data model.
InDataModelRanges(c) ==
    /\ c.agency_level \in 1..10
    /\ \A i \in 1..Len(c.appearance_descriptions) :
           \E j \in 1..Len(appearance_words) :
               c.appearance_descriptions[i] = appearance_words[j]
    /\ RLeq(Zero, c.screen_time) /\ RLeq(c.screen_time, Rat(100, 1))

InRange0to100(r) == RLeq(Zero, r) /\ RLeq(r, Rat(100, 1))

\* C3: for characters within the data-model ranges each of the six
\* dimensions and overall lies in 0..100.
C3_ScoresWithin0to100 ==
    (Scored /\ \A i \in 1..Len(characters) : InDataModelRanges(characters[i]))
        => /\ \A i \in 1..6 : InRange0to100(Dimensions[i])
           /\ InRange0to100(scores.overall)

\* C4: unknown-gender characters take no part in scoring: the scores of a
\* list equal the scores of the same list with every unknown-gender
\* character removed.
WithoutUnknown(chars) ==
    LET Known(c) == c.gender # "unknown" IN SelectSeq(chars, Known)

C4_UnknownExcluded ==
    Scored =>
        scores = calculate_comprehensive_bias_scores(WithoutUnknown(characters))

C4_Witness ==
    /\ Scored
    /\ NumFemale > 0 /\ NumMale > 0
    /\ \E i \in 1..Len(characters) : characters[i].gender = "unknown"
    /\ \A i \in 1..6 : Dimensions[i] # Zero

\* C5: with at least one female character, occupationGap is
\* max(0, (maleProfRate - femaleProfRate) * 100) with femaleProfRate =
\* femaleWithProf / |female| and maleProfRate = maleWithProf / max(|male|, 1);
\* it is 0 when there is no male character.
FemaleWithProf ==
    Cardinality({i \in 1..Len(characters) :
                    IsFemale(characters[i]) /\ HasProfession(characters[i])})
MaleWithProf ==
    Cardinality({i \in 1..Len(characters) :
                    IsMale(characters[i]) /\ HasProfession(characters[i])})

C5_OccupationGapFormula ==
    (Scored /\ NumFemale > 0) =>
        LET maleDen == IF NumMale > 1 THEN NumMale ELSE 1
            diff100 == (MaleWithProf * NumFemale - FemaleWithProf * maleDen) * 100
            gap == scores.occupation_gap
        IN  /\ gap[1] * (NumFemale * maleDen) =
                   gap[2] * (IF diff100 > 0 THEN diff100 ELSE 0)
            /\ NumMale = 0 => gap = Zero

C5_Witness ==
    /\ Scored
    /\ NumFemale > 1 /\ NumMale > 0
    /\ FemaleWithProf > 0
    /\ RLess(Zero, scores.occupation_gap)
    /\ RLess(scores.occupation_gap, Rat(100, 1))

\* C6: dialogueImbalance is 0 when the female subset is empty, the male
\* subset is empty or the total dialogue count is 0; otherwise it is
\* max(0, (|female| / (|female| + |male|) - femaleDialogue / totalDialogue) * 100).
RECURSIVE DialogueOfGender(_, _)
DialogueOfGender(chars, g) ==
    IF chars = <<>> THEN 0
    ELSE (IF Head(chars).gender = g THEN Head(chars).dialogue_count ELSE 0)
         + DialogueOfGender(Tail(chars), g)

C6_DialogueImbalanceFormula ==
    Scored =>
        LET fd == DialogueOfGender(characters, "female")
            td == fd + DialogueOfGender(characters, "male")
            both == NumFemale + NumMale
            diff100 == (NumFemale * td - fd * both) * 100
            di == scores.dialogue_imbalance
        IN  IF NumFemale = 0 \/ NumMale = 0 \/ td = 0 THEN di = Zero
            ELSE di[1] * (both * td) =
                     di[2] * (IF diff100 > 0 THEN diff100 ELSE 0)

C6_Witness ==
    /\ Scored
    /\ NumFemale > 0 /\ NumMale > 0
    /\ DialogueOfGender(characters, "female") > 0
    /\ RLess(Zero, scores.dialogue_imbalance)
    /\ RLess(scores.dialogue_imbalance, Rat(50, 1))

(***************************************************************************)
(* Properties of the character extractor, checked under SpecExtract.       *)
(***************************************************************************)
Extracted == pc \in {"extracted", "analyzed"}

\* the number of occurrences and the first position of a token
Occurs(tokens, n) == Cardinality({i \in 1..Len(tokens) : tokens[i] = n})

FirstSeen(tokens, n) == Min({i \in 1..Len(tokens) : tokens[i] = n})

\* the tokens that occur at least 2 times and are not in the stop-set
Candidates(tokens) ==
    {n \in {tokens[i] : i \in 1..Len(tokens)} :
        Occurs(tokens, n) >= 2 /\ n \notin common_words}

\* C7: the extraction returns one character per capitalized token that
\* occurs at least 2 times and is not in the stop-set, restricted to the
\* first 10 such tokens by first occurrence: at most 10 characters, pairwise
\* distinct names, in the order in which the names are first seen.
C7_FirstTenCandidates ==
    Extracted =>
        LET tokens == FindNames(text)
            candidates == Candidates(tokens)
            first == [n \in candidates |-> FirstSeen(tokens, n)]
            firstTen ==
                {n \in candidates :
                    Cardinality({m \in candidates : first[m] < first[n]}) < 10}
        IN  /\ Len(characters) <= 10
            /\ {characters[i].name : i \in 1..Len(characters)} = firstTen
            /\ \A i, j \in 1..Len(characters) :
                   i < j => /\ characters[i].name # characters[j].name
                            /\ first[characters[i].name]
                                   < first[characters[j].name]

C7_Witness ==
    /\ Extracted
    /\ Len(characters) = 10
    /\ LET tokens == FindNames(text)
       IN  /\ Cardinality(Candidates(tokens)) > 10
           /\ \E w \in common_words : Occurs(tokens, w) >= 2

\* C8: for the first sample the extraction yields the character Sonia Saxena
\* as female with no profession, at least one relationship marker and at
\* least one appearance descriptor, and relationshipDefining is 100.
C8_SoniaSample ==
    (pc = "analyzed" /\ text = SoniaSample) =>
        /\ \E i \in 1..Len(characters) :
               /\ characters[i].name = "Sonia Saxena"
               /\ characters[i].gender = "female"
               /\ characters[i].professions = <<>>
               /\ characters[i].relationships # <<>>
               /\ characters[i].appearance_descriptions # <<>>
        /\ scores.relationship_defining = Rat(100, 1)

\* C9: for the second sample the extraction yields the same name with at
\* least one profession and an agency level above 5, and occupationGap and
\* relationshipDefining are both 0.
C9_DrSoniaSample ==
    (pc = "analyzed" /\ text = DrSoniaSample) =>
        /\ \E i \in 1..Len(characters) :
               /\ characters[i].name = "Sonia Saxena"
               /\ characters[i].professions # <<>>
               /\ characters[i].agency_level > 5
        /\ scores.occupation_gap = Zero
        /\ scores.relationship_defining = Zero

\* the number of words of the context that are one of the given pronouns
PronounCount(context, pronouns) ==
    LET context_lower == lower(context) IN
    Cardinality(
        {i \in 1..Len(context_lower) :
            /\ i = 1 \/ Ch(context_lower, i - 1) \notin WordChars
            /\ \E p \in pronouns :
                   /\ i + Len(p) - 1 <= Len(context_lower)
                   /\ SubSeq(context_lower, i, i + Len(p) - 1) = p
                   /\ \/ i + Len(p) > Len(context_lower)
                      \/ Ch(context_lower, i + Len(p)) \notin WordChars})

\* the two-stage decision: gazetteers first (female before male), then the
\* majority of she/her against he/him pronouns in the local context
TwoStageGender(name, context) ==
    LET she == PronounCount(context, {"she", "her"})
        he == PronounCount(context, {"he", "him"})
    IN  IF \E fn \in female_names : Contains(lower(name), fn) THEN "female"
        ELSE IF \E mn \in male_names : Contains(lower(name), mn) THEN "male"
        ELSE IF she > he THEN "female"
        ELSE IF he > she THEN "male"
        ELSE "unknown"

\* C10: the gender of a character is its gazetteer's gender when the name
\* contains a gazetteer entry (female gazetteer first); otherwise female with
\* strictly more she/her than he/him pronouns in the local context, male with
\* strictly more he/him than she/her pronouns, unknown on a tie or none.
C10_TwoStageGender ==
    Extracted =>
        \A i \in 1..Len(characters) :
            characters[i].gender =
                TwoStageGender(characters[i].name,
                    Join(character_sentences(characters[i].name, text), " "))

(***************************************************************************)
(* Rewrite engine (LLMBiasRewriter): vocabulary and rule tables.           *)
(***************************************************************************)
professional_titles ==
    <<"doctor", "engineer", "lawyer", "teacher", "scientist", "researcher",
      "manager", "director", "consultant", "entrepreneur", "artist",
      "writer", "journalist", "designer", "architect", "analyst">>

\* word -> alternatives, in the order of the dictionary
appearance_replacements ==
    << <<"beautiful", <<"accomplished", "talented", "skilled", "intelligent">> >>,
       <<"pretty", <<"capable", "competent", "experienced", "knowledgeable">> >>,
       <<"gorgeous", <<"brilliant", "innovative", "creative", "successful">> >>,
       <<"stunning", <<"impressive", "remarkable", "outstanding", "exceptional">> >>,
       <<"attractive", <<"engaging", "compelling", "influential", "respected">> >>,
       <<"handsome", <<"professional", "accomplished", "skilled", "experienced">> >>,
       <<"good-looking", <<"well-regarded", "respected", "competent", "capable">> >> >>

\* passive phrase -> active alternatives, in the order of the dictionary
agency_replacements ==
    << <<"waits for", <<"actively seeks", "pursues", "works towards", "strives for">> >>,
       <<"hopes for", <<"works towards", "actively pursues", "strives to achieve">> >>,
       <<"wishes for", <<"actively seeks", "works to obtain", "pursues">> >>,
       <<"dreams of", <<"works towards", "actively pursues", "strives for">> >>,
       <<"receives", <<"earns", "achieves", "obtains", "secures">> >>,
       <<"is given", <<"earns", "achieves", "secures", "obtains">> >>,
       <<"gets", <<"earns", "achieves", "secures", "obtains">> >> >>

\* self.profession_additions, the qualifiers of _add_professional_identity
profession_phrases ==
    <<"a skilled professional", "an accomplished expert",
      "a talented specialist", "an experienced professional",
      "a successful entrepreneur", "a dedicated professional">>

\* rewrite_patterns['occupation_gap']['profession_additions'] as constructed
constructed_profession_additions ==
    <<"doctor", "engineer", "teacher", "lawyer", "businesswoman",
      "artist", "writer", "scientist", "manager", "consultant",
      "designer", "architect", "journalist", "researcher", "entrepreneur">>

\* the profession lists of _create_rule_based_variation
profession_sets ==
    << <<"doctor", "engineer", "teacher", "lawyer", "businesswoman">>,
       <<"artist", "writer", "scientist", "manager", "consultant">>,
       <<"designer", "architect", "journalist", "researcher", "entrepreneur">> >>

(***************************************************************************)
(* The substitution rules.  A rule of shape "name_kw" stands for the       *)
(* regular expression  NAME SEP KW [" " TAIL]  where                       *)
(*   NAME is ([A-Z][a-z]+) for name = "Name" and (\w+) for name = "word",  *)
(*   SEP  is ,?\s+ for "comma_ws", \s+ for "ws" and one blank for "space", *)
(*   KW   is the literal keyword, matched without regard to case when      *)
(*        icase holds (re.IGNORECASE),                                     *)
(*   TAIL is ([^,]+) for "not_comma", ([^.]+) for "not_period" and absent  *)
(*        for "none";                                                      *)
(* its replacement template is \1 repl \2 (\1 repl without a tail).  A     *)
(* rule of shape "adj_name" stands for  KW " " ([A-Z][a-z]+)  with the     *)
(* template  repl " " \1.                                                  *)
(***************************************************************************)
NameKw(name, sep, kw, tail, icase, repl) ==
    [shape |-> "name_kw", name |-> name, sep |-> sep, kw |-> kw,
     tail |-> tail, icase |-> icase, repl |-> repl]

AdjName(kw, repl) ==
    [shape |-> "adj_name", kw |-> kw, icase |-> FALSE, repl |-> repl]

\* self.relationship_patterns, applied with re.IGNORECASE
relationship_patterns ==
    << NameKw("word", "comma_ws", "daughter of", "not_comma", TRUE,
              ", a professional and daughter of "),
       NameKw("word", "comma_ws", "wife of", "not_comma", TRUE,
              ", an accomplished professional and wife of "),
       NameKw("word", "comma_ws", "sister of", "not_comma", TRUE,
              ", an independent professional and sister of "),
       NameKw("word", "ws", "belongs to", "none", TRUE,
              ", a successful professional, belongs to") >>

\* rewrite_patterns['occupation_gap']['patterns']
occupation_gap_patterns ==
    << NameKw("Name", "comma_ws", "daughter of", "not_comma", FALSE,
              ", a professional and daughter of "),
       NameKw("Name", "comma_ws", "wife of", "not_comma", FALSE,
              ", a working professional and wife of "),
       NameKw("Name", "comma_ws", "sister of", "not_comma", FALSE,
              ", a career woman and sister of "),
       NameKw("Name", "space", "belongs to", "not_period", FALSE,
              " works professionally and belongs to ") >>

\* rewrite_patterns['agency_gap']['passive_to_active']
passive_to_active ==
    << NameKw("Name", "space", "receives", "not_period", FALSE,
              " chooses to accept "),
       NameKw("Name", "space", "waits for", "not_period", FALSE,
              " actively seeks "),
       NameKw("Name", "space", "hopes for", "not_period", FALSE,
              " works towards "),
       NameKw("Name", "space", "follows", "not_period", FALSE,
              " collaborates with "),
       NameKw("Name", "space", "accepts", "not_period", FALSE,
              " decides to embrace ") >>

\* rewrite_patterns['appearance_focus']['appearance_to_trait']
appearance_to_trait ==
    << AdjName("beautiful", "intelligent"),
       AdjName("pretty", "talented"),
       AdjName("gorgeous", "skilled"),
       AdjName("stunning", "accomplished"),
       AdjName("attractive", "capable") >>

\* rewrite_patterns['relationship_defining']['add_independence']
add_independence ==
    << NameKw("Name", "comma_ws", "daughter of", "not_comma", FALSE,
              ", an independent woman and daughter of "),
       NameKw("Name", "comma_ws", "wife of", "not_comma", FALSE,
              ", a self-reliant individual and wife of "),
       NameKw("Name", "space", "belongs to", "not_period", FALSE,
              " has her own identity and belongs to ") >>

\* the scalar rule of _add_professional_identity, applied with count=1
scientist_pattern ==
    NameKw("word", "comma_ws", "daughter of", "none", FALSE,
           ", a scientist, daughter of")

(***************************************************************************)
(* Matching and substitution of the rules (re.search, re.sub).            *)
(***************************************************************************)
\* the character at position i, "" outside the text
At(s, i) == IF i \in 1..Len(s) THEN Ch(s, i) ELSE ""

\* the literal occurs in s at position i
HasAt(s, i, lit) ==
    /\ i >= 1
    /\ i + Len(lit) - 1 <= Len(s)
    /\ SubSeq(s, i, i + Len(lit) - 1) = lit

\* the last position of the longest run of characters of the set that
\* starts at i; i - 1 when the run is empty
RunEnd(s, i, set) ==
    Min({j \in i..(Len(s) + 1) : At(s, j) \notin set}) - 1

\* the last position of the longest run of characters other than stop
\* that starts at i; i - 1 when the run is empty
RunEndNot(s, i, stop) ==
    Min({j \in i..(Len(s) + 1) : j = Len(s) + 1 \/ Ch(s, j) = stop}) - 1

\* the text in which the keyword of the rule is looked for
Folded(s, p) == IF p.icase THEN lower(s) ELSE s

\* the end of group 1 of a "name_kw" rule matched at i, 0 when it does not
\* match: the quantifiers are greedy, and a shorter run never helps since
\* the next item of the rule cannot match a character of the run
NameEnd(s, i, p) ==
    IF p.name = "Name"
    THEN IF At(s, i) \in UpperSet /\ At(s, i + 1) \in LowerSet
         THEN RunEnd(s, i + 1, LowerSet) ELSE 0
    ELSE IF At(s, i) \in WordChars THEN RunEnd(s, i, WordChars) ELSE 0

\* the last position of the separator that starts behind position e,
\* 0 when there is none
SepEnd(s, e, p) ==
    IF p.sep = "space" THEN (IF At(s, e + 1) = " " THEN e + 1 ELSE 0)
    ELSE LET c == IF p.sep = "comma_ws" /\ At(s, e + 1) = ","
                  THEN e + 2 ELSE e + 1
             w == RunEnd(s, c, Whitespace)
         IN  IF w >= c THEN w ELSE 0

\* the position at which group 2 starts when the keyword starts behind w
TailStart(w, p) == w + Len(p.kw) + 2

\* the last position of the match of the rule that starts at i, 0 when the
\* rule does not match at i
MatchEnd(s, i, p) ==
    IF p.shape = "adj_name"
    THEN LET n == i + Len(p.kw) + 1 IN
         IF /\ HasAt(s, i, p.kw \o " ")
            /\ At(s, n) \in UpperSet
            /\ At(s, n + 1) \in LowerSet
         THEN RunEnd(s, n + 1, LowerSet) ELSE 0
    ELSE LET e == NameEnd(s, i, p) IN
         IF e = 0 THEN 0
         ELSE LET w == SepEnd(s, e, p) IN
              IF w = 0 \/ ~HasAt(Folded(s, p), w + 1, p.kw) THEN 0
              ELSE IF p.tail = "none" THEN w + Len(p.kw)
              ELSE IF At(s, w + Len(p.kw) + 1) # " " THEN 0
              ELSE LET g == TailStart(w, p)
                       ge == RunEndNot(s, g,
                                 IF p.tail = "not_comma" THEN "," ELSE ".")
                   IN  IF ge >= g THEN ge ELSE 0

\* the expansion of the replacement template for the match at i
Expand(s, i, p) ==
    IF p.shape = "adj_name"
    THEN p.repl \o " " \o SubSeq(s, i + Len(p.kw) + 1, MatchEnd(s, i, p))
    ELSE LET e == NameEnd(s, i, p)
             group1 == SubSeq(s, i, e)
         IN  IF p.tail = "none" THEN group1 \o p.repl
             ELSE group1 \o p.repl
                  \o SubSeq(s, TailStart(SepEnd(s, e, p), p), MatchEnd(s, i, p))

\* the start of the leftmost match at or behind position from, 0 when
\* there is none (every match contains the keyword)
Search(s, from, p) ==
    IF ~Contains(Folded(s, p), p.kw) THEN 0
    ELSE LET starts == {i \in from..Len(s) : MatchEnd(s, i, p) > 0}
         IN  IF starts = {} THEN 0 ELSE Min(starts)

RECURSIVE SubAllFrom(_, _, _)
\* the text from position from on with every match replaced, the scan
\* resuming behind each match
SubAllFrom(s, from, p) ==
    LET i == Search(s, from, p) IN
    IF i = 0 THEN SubSeq(s, from, Len(s))
    ELSE SubSeq(s, from, i - 1) \o Expand(s, i, p)
         \o SubAllFrom(s, MatchEnd(s, i, p) + 1, p)

\* re.sub(pattern, replacement, s)
SubAll(s, p) == SubAllFrom(s, 1, p)

\* re.sub(pattern, replacement, s, count=1)
SubFirst(s, p) ==
    LET i == Search(s, 1, p) IN
    IF i = 0 THEN s
    ELSE SubSeq(s, 1, i - 1) \o Expand(s, i, p)
         \o SubSeq(s, MatchEnd(s, i, p) + 1, Len(s))

\* s.replace(old, new, 1), and pattern.sub(new, s, count=1) for a literal
\* pattern compiled with re.IGNORECASE when icase holds
ReplaceFirst(s, old, new, icase) ==
    LET occ == Occurrences(IF icase THEN lower(s) ELSE s, old) IN
    IF occ = {} THEN s
    ELSE LET i == Min(occ)
         IN  SubSeq(s, 1, i - 1) \o new \o SubSeq(s, i + Len(old), Len(s))

(***************************************************************************)
(* Self-scoring of a rewrite.                                              *)
(***************************************************************************)
RMin(a, b) == IF RLess(b, a) THEN b ELSE a

\* the indicator patterns of _calculate_bias_reduction, all families
bias_indicators ==
    <<"daughter of", "wife of", "sister of", "belongs to",
      "receives", "waits", "hopes", "follows", "accepts",
      "beautiful", "pretty", "gorgeous", "stunning", "attractive">>

profession_words ==
    <<"doctor", "engineer", "teacher", "lawyer", "professional", "works",
      "career">>

RECURSIVE IndicatorHitsFrom(_, _)
\* the sum over the patterns from index k on of
\* len(re.findall(pattern, s, re.IGNORECASE)), s being lower-cased already
IndicatorHitsFrom(folded, k) ==
    IF k > Len(bias_indicators) THEN 0
    ELSE Count(folded, bias_indicators[k]) + IndicatorHitsFrom(folded, k + 1)

IndicatorHits(s) == IndicatorHitsFrom(lower(s), 1)

\* sum(1 for word in profession_words if word in s.lower())
ProfessionWordCount(s) ==
    LET folded == lower(s)
    IN  Cardinality({i \in 1..Len(profession_words) :
                        Contains(folded, profession_words[i])})

\* Mutant: an original free of indicators scores 0 instead of 50.
_calculate_bias_reduction_ZeroBaseline(original, rewritten, flagged) ==
    LET original_bias_count == IndicatorHits(original)
        rewritten_bias_count == IndicatorHits(rewritten)
        gained == (ProfessionWordCount(rewritten)
                     - ProfessionWordCount(original)) * 10
    IN  IF original_bias_count = 0 THEN Rat(0, 1)
        ELSE RMin(Rat(100, 1),
                  RAdd(Max0(Rat((original_bias_count - rewritten_bias_count)
                                    * 100, original_bias_count)),
                       Rat(IF gained < 30 THEN gained ELSE 30, 1)))

_calculate_bias_reduction(original, rewritten, flagged) ==
    LET original_bias_count == IndicatorHits(original)
        rewritten_bias_count == IndicatorHits(rewritten)
        original_professions == ProfessionWordCount(original)
        rewritten_professions == ProfessionWordCount(rewritten)
    IN  IF original_bias_count = 0 THEN Rat(50, 1)
        ELSE LET bias_reduction ==
                     Max0(Rat((original_bias_count - rewritten_bias_count) * 100,
                              original_bias_count))
                 gained == (rewritten_professions - original_professions) * 10
                 profession_improvement == IF gained < 30 THEN gained ELSE 30
             IN  RMin(Rat(100, 1),
                      RAdd(bias_reduction, Rat(profession_improvement, 1)))

\* set(re.findall(r'[A-Z][a-z]+', s)): a match starts at every upper-case
\* letter that a lower-case letter follows, and takes the whole run
CapitalizedNames(s) ==
    {SubSeq(s, i, RunEnd(s, i + 1, LowerSet)) :
        i \in {j \in 1..Len(s) : /\ Ch(s, j) \in UpperSet
                                 /\ At(s, j + 1) \in LowerSet}}

\* len(re.findall(r'[.!?]+', s)): the number of runs of end marks
EndMarkRuns(s) ==
    Cardinality({i \in 1..Len(s) :
                    /\ Ch(s, i) \in {".", "!", "?"}
                    /\ At(s, i - 1) \notin {".", "!", "?"}})

\* the characters [\w\s.,!?;:-] that the readability check accepts
PlainChars == WordChars \cup Whitespace \cup {".", ",", "!", "?", ";", ":", "-"}

_calculate_quality_score(original, rewritten, improvement_log) ==
    LET o == Len(original)
        r == IF o > 0 THEN Len(rewritten) ELSE 1
        d == IF o > 0 THEN o ELSE 1
        \* 0.8 <= r/d <= 1.5, else 0.6 <= r/d <= 2.0
        length_preservation ==
            IF 4 * d <= 5 * r /\ 2 * r <= 3 * d THEN 20
            ELSE IF 3 * d <= 5 * r /\ r <= 2 * d THEN 10
            ELSE 0
        original_names == CapitalizedNames(original)
        rewritten_names == CapitalizedNames(rewritten)
        name_preservation ==
            IF original_names = {} THEN Rat(20, 1)
            ELSE Rat(Cardinality(original_names \cap rewritten_names) * 20,
                     Cardinality(original_names))
        delta == Abs(EndMarkRuns(original) - EndMarkRuns(rewritten))
        narrative_flow == IF delta <= 2 THEN 20
                          ELSE IF delta <= 4 THEN 10 ELSE 0
        logged == Len(improvement_log) * 5
        improvement_count == IF logged < 20 THEN logged ELSE 20
        readability ==
            IF /\ rewritten # ""
               /\ \A i \in 1..Len(rewritten) : Ch(rewritten, i) \in PlainChars
            THEN 20 ELSE 0
    IN  RAdd(name_preservation,
             Rat(length_preservation + narrative_flow + improvement_count
                 + readability, 1))

(***************************************************************************)
(* The module-level generator of Python's random.  Its state is modelled   *)
(* by the outputs it is going to produce: the sequence of the top four     *)
(* bits of its successive 32-bit outputs.  random.choice(seq) is           *)
(* seq[_randbelow(len(seq))], and _randbelow(n) takes the top              *)
(* n.bit_length() bits of one output after the other until the value is    *)
(* below n.                                                                *)
(***************************************************************************)
\* the generator after random.seed(seed) (Mersenne Twister, init_by_array)
MT19937(seed) ==
    CASE seed = 0 -> <<13, 6, 12, 14, 6, 0, 4, 15, 8, 7, 6, 14,
                       12, 13, 4, 15, 7, 5, 9, 14, 14, 3, 8, 2>>
      [] seed = 1 -> <<2, 9, 13, 12, 12, 1, 4, 1, 7, 12, 7, 7,
                       10, 6, 12, 3, 1, 7, 0, 14, 13, 6, 6, 9>>
      [] seed = 2 -> <<15, 13, 15, 13, 0, 1, 1, 5, 13, 2, 11, 12,
                       10, 13, 4, 4, 9, 3, 9, 0, 9, 10, 2, 15>>
      [] seed = 3 -> <<3, 9, 8, 2, 5, 14, 9, 7, 10, 9, 1, 9,
                       0, 14, 13, 7, 4, 8, 3, 3, 15, 11, 7, 8>>

\* n.bit_length() for the list lengths 1..15
BitLength(n) == IF n >= 8 THEN 4 ELSE IF n >= 4 THEN 3 ELSE IF n >= 2 THEN 2 ELSE 1

RECURSIVE _randbelow(_, _)
\* <<the value drawn, the generator left behind>>
_randbelow(stream, n) ==
    LET r == Head(stream) \div (2 ^ (4 - BitLength(n))) IN
    IF r < n THEN <<r, Tail(stream)>> ELSE _randbelow(Tail(stream), n)

\* random.choice(seq): <<the element drawn, the generator left behind>>
choice(stream, seq) ==
    LET drawn == _randbelow(stream, Len(seq))
    IN  <<seq[drawn[1] + 1], drawn[2]>>

(***************************************************************************)
(* The rewrite passes.  A pass maps the record                             *)
(*   [text, improvements, rng]                                             *)
(* of the text rewritten so far, the log and the generator to the next.    *)
(***************************************************************************)
Pass(t, log, stream) == [text |-> t, improvements |-> log, rng |-> stream]

RECURSIVE ApplyRules(_, _, _, _)
\* for pattern, replacement in rules: if re.search(...): re.sub(...), log
ApplyRules(st, rules, k, note) ==
    IF k > Len(rules) THEN st
    ELSE IF Search(st.text, 1, rules[k]) > 0
         THEN ApplyRules(Pass(SubAll(st.text, rules[k]),
                              Append(st.improvements, note), st.rng),
                         rules, k + 1, note)
         ELSE ApplyRules(st, rules, k + 1, note)

female_words == {"she", "her", "daughter", "wife", "sister"}

\* \bword\b matches at position j
WholeWordAt(s, j, word) ==
    /\ HasAt(s, j, word)
    /\ At(s, j - 1) \notin WordChars
    /\ At(s, j + Len(word)) \notin WordChars

\* the start of the leftmost match of
\*   ([A-Z][a-z]+)(?=.*\b(?:she|her|daughter|wife|sister)\b)
\* 0 when there is none: a capitalised run that one of the words follows
\* on the same line ('.' does not match a newline)
FemaleSearch(s) ==
    LET words == {j \in 1..Len(s) :
                     \E w \in female_words : WholeWordAt(s, j, w)}
        newlines == {j \in 1..Len(s) : Ch(s, j) = "\n"}
        Ahead(e) == \E j \in words :
                        /\ j > e
                        /\ \A n \in newlines : n <= e \/ n >= j
        starts == {i \in 1..Len(s) :
                      /\ Ch(s, i) \in UpperSet
                      /\ At(s, i + 1) \in LowerSet
                      /\ Ahead(RunEnd(s, i + 1, LowerSet))}
    IN  IF words = {} \/ starts = {} THEN 0 ELSE Min(starts)

\* the insertion of the drawn profession behind the name that starts at
\* position i (no insertion when i = 0), the generator being left as given
InsertProfession(st, profession, i, stream) ==
    IF i = 0 THEN Pass(st.text, st.improvements, stream)
    ELSE Pass(ReplaceFirst(st.text,
                  SubSeq(st.text, i, RunEnd(st.text, i + 1, LowerSet)),
                  SubSeq(st.text, i, RunEnd(st.text, i + 1, LowerSet))
                      \o ", a " \o profession \o ",", FALSE),
              Append(st.improvements,
                  "Added profession (" \o profession \o ") to female character"),
              stream)

InsertDrawn(st, drawn) ==
    InsertProfession(st, drawn[1], FemaleSearch(st.text), drawn[2])

\* the profession injection of the occupation_gap branch
InjectProfession(st, additions) ==
    IF \E prof \in {"doctor", "engineer", "teacher", "lawyer"} :
           Contains(lower(st.text), prof)
    THEN st
    ELSE InsertDrawn(st, choice(st.rng, additions))

\* Mutant: a dimension without rules of its own gets the agency rules.
RulesOf_DefaultAgency(bias_type) ==
    CASE bias_type = "occupation_gap" -> occupation_gap_patterns
      [] bias_type = "agency_gap" -> passive_to_active
      [] bias_type = "appearance_focus" -> appearance_to_trait
      [] bias_type = "relationship_defining" -> add_independence
      [] OTHER -> passive_to_active

\* the rules of a dimension and the note logged when one of them fires
RulesOf(bias_type) ==
    CASE bias_type = "occupation_gap" -> occupation_gap_patterns
      [] bias_type = "agency_gap" -> passive_to_active
      [] bias_type = "appearance_focus" -> appearance_to_trait
      [] bias_type = "relationship_defining" -> add_independence
      [] OTHER -> <<>>

NoteOf(bias_type) ==
    CASE bias_type = "occupation_gap" ->
             "Added professional identity to character introduction"
      [] bias_type = "agency_gap" ->
             "Converted passive action to active agency"
      [] bias_type = "appearance_focus" ->
             "Replaced appearance description with character trait"
      [] bias_type = "relationship_defining" ->
             "Added independent identity alongside relationship"
      [] OTHER -> ""

\* the profession injection follows the rules of occupation_gap
AfterRules(st, bias_type, additions) ==
    IF bias_type = "occupation_gap" THEN InjectProfession(st, additions)
    ELSE st

\* the body of the loop over bias_types for one flagged dimension
ApplyDimension(st, bias_type, additions) ==
    AfterRules(ApplyRules(st, RulesOf(bias_type), 1, NoteOf(bias_type)),
               bias_type, additions)

RECURSIVE ApplyDimensions(_, _, _, _)
\* for bias_type in bias_types: ...
ApplyDimensions(st, flagged, k, additions) ==
    IF k > Len(flagged) THEN st
    ELSE ApplyDimensions(ApplyDimension(st, flagged[k], additions),
                         flagged, k + 1, additions)

\* one replacement of _reduce_appearance_focus (appearance = TRUE) or of
\* _increase_agency (appearance = FALSE) with the alternative drawn
ReplaceWord(st, word, drawn, appearance) ==
    Pass(ReplaceFirst(st.text, word, drawn[1], TRUE),
         Append(st.improvements,
             IF appearance
             THEN "Replaced appearance-focused \"" \o word
                  \o "\" with \"" \o drawn[1] \o "\""
             ELSE "Converted passive action to active agency"),
         drawn[2])

RECURSIVE ReplaceWords(_, _, _, _)
\* the loop of _reduce_appearance_focus and of _increase_agency over the
\* table from index k on
ReplaceWords(st, table, k, appearance) ==
    IF k > Len(table) THEN st
    ELSE IF ~Contains(lower(st.text), table[k][1])
         THEN ReplaceWords(st, table, k + 1, appearance)
         ELSE ReplaceWords(
                  ReplaceWord(st, table[k][1], choice(st.rng, table[k][2]),
                              appearance),
                  table, k + 1, appearance)

_reduce_appearance_focus(st) == ReplaceWords(st, appearance_replacements, 1, TRUE)

_increase_agency(st) == ReplaceWords(st, agency_replacements, 1, FALSE)

female_indicators == {"she", "her", "daughter", "wife", "sister", "mother"}

\* the qualifier drawn is inserted behind the name that starts at i
QualifyName(st, drawn, i) ==
    IF i = 0 THEN Pass(st.text, st.improvements, drawn[2])
    ELSE Pass(ReplaceFirst(st.text,
                  SubSeq(st.text, i, NameEndAt(st.text, i)),
                  SubSeq(st.text, i, NameEndAt(st.text, i))
                      \o ", " \o drawn[1], FALSE),
              Append(st.improvements,
                  "Added professional identity to character introduction"),
              drawn[2])

\* the start of the first match of \b([A-Z][a-z]+)\b, 0 when there is none
FirstName(s) ==
    IF \E i \in 1..Len(s) : NameEndAt(s, i) > 0
    THEN Min({i \in 1..Len(s) : NameEndAt(s, i) > 0}) ELSE 0

\* the first half of _add_professional_identity, on the lower-cased text
AddQualifier(st, folded) ==
    IF /\ \E indicator \in female_indicators : Contains(folded, indicator)
       /\ \A i \in 1..Len(professional_titles) :
              ~Contains(folded, professional_titles[i])
    THEN QualifyName(st, choice(st.rng, profession_phrases),
                     FirstName(st.text))
    ELSE st

\* the second half of _add_professional_identity, on the lower-cased text
AddScientist(st, folded) ==
    IF Contains(folded, "daughter of") /\ ~Contains(folded, "professional")
    THEN Pass(SubFirst(st.text, scientist_pattern),
              Append(st.improvements,
                  "Added profession (scientist) to female character"),
              st.rng)
    ELSE st

AddScientistTo(st) == AddScientist(st, lower(st.text))

_add_professional_identity(st) ==
    AddScientistTo(AddQualifier(st, lower(st.text)))

RECURSIVE ApplyFirst(_, _, _)
\* the loop of _reduce_relationship_dependency from index k on
ApplyFirst(st, rules, k) ==
    IF k > Len(rules) THEN st
    ELSE IF Search(st.text, 1, rules[k]) > 0
         THEN ApplyFirst(Pass(SubFirst(st.text, rules[k]),
                              Append(st.improvements,
                                  "Added independent identity alongside family relationship"),
                              st.rng),
                         rules, k + 1)
         ELSE ApplyFirst(st, rules, k + 1)

_reduce_relationship_dependency(st) == ApplyFirst(st, relationship_patterns, 1)

Flagged(flagged, bias_type) == \E k \in 1..Len(flagged) : flagged[k] = bias_type

RewriteResult(o, r, q, b, log, type) ==
    [original_text |-> o, rewritten_text |-> r, quality_score |-> q,
     bias_reduction |-> b, improvements |-> log, rewrite_type |-> type]

\* the dedicated passes, each applied when its dimension is flagged
AppearancePass(st, flagged) ==
    IF Flagged(flagged, "appearance_focus")
    THEN _reduce_appearance_focus(st) ELSE st

AgencyPass(st, flagged) ==
    IF Flagged(flagged, "agency_gap") THEN _increase_agency(st) ELSE st

OccupationPass(st, flagged) ==
    IF Flagged(flagged, "occupation_gap")
    THEN _add_professional_identity(st) ELSE st

RelationshipPass(st, flagged) ==
    IF Flagged(flagged, "relationship_defining")
    THEN _reduce_relationship_dependency(st) ELSE st

\* Mutant: no pass is applied to the text.
RuleBasedPasses_None(original, flagged, stream, additions) ==
    Pass(original, <<>>, stream)

\* the passes of rewrite_text_rule_based in their order
RuleBasedPasses(original, flagged, stream, additions) ==
    RelationshipPass(
        OccupationPass(
            AgencyPass(
                AppearancePass(
                    ApplyDimensions(Pass(original, <<>>, stream), flagged, 1,
                                    additions),
                    flagged),
                flagged),
            flagged),
        flagged)

\* the result built from the outcome of the passes
RuleBasedResult(original, flagged, done) ==
    [result |->
        RewriteResult(original, done.text,
            _calculate_quality_score(original, done.text, done.improvements),
            _calculate_bias_reduction(original, done.text, flagged),
            done.improvements, "rule_based"),
     rng |-> done.rng]

\* rewrite_text_rule_based(text, bias_types) run with the generator in the
\* given state and the given profession_additions list:
\* [result |-> the RewriteResult, rng |-> the generator left behind]
rewrite_text_rule_based(original, flagged, stream, additions) ==
    RuleBasedResult(original, flagged,
                    RuleBasedPasses(original, flagged, stream, additions))

(***************************************************************************)
(* The rubric of the evaluation harness                                    *)
(* (BiasDetectionEvaluator._evaluate_single_rewrite).                      *)
(***************************************************************************)
\* len([s for s in text.split('.') if s.strip()])
SentencePieces(s) ==
    LET pieces == SplitFrom(s, {"."}, 1)
    IN  Cardinality({i \in 1..Len(pieces) : strip(pieces[i]) # ""})

AttributeError == [overall_quality |-> "AttributeError"]

\* the rubric reads rewrite_result.bias_reduction_score and fails with an
\* AttributeError on a result that has no such attribute
_evaluate_single_rewrite(original, rewrite_result) ==
    IF "bias_reduction_score" \notin DOMAIN rewrite_result THEN AttributeError
    ELSE
    LET rewritten == rewrite_result.rewritten_text
        delta == Abs(SentencePieces(original) - SentencePieces(rewritten))
        narrative_preservation ==
            IF delta <= 1 THEN 20 ELSE IF delta <= 2 THEN 15 ELSE 10
        original_names == CapitalizedNames(original)
        rewritten_names == CapitalizedNames(rewritten)
        character_preservation ==
            IF original_names = {} THEN Rat(20, 1)
            ELSE Rat(Cardinality(original_names \cap rewritten_names) * 20,
                     Cardinality(original_names))
        \* len(rewritten.split()) >= len(original.split()) * 0.8
        readability ==
            IF rewritten # "" /\ 5 * WordCount(rewritten) >= 4 * WordCount(original)
            THEN 20 ELSE 10
        fifth == Rat(rewrite_result.bias_reduction_score[1],
                     rewrite_result.bias_reduction_score[2] * 5)
        bias_improvement == RMin(Rat(20, 1), fifth)
        o == Len(original)
        r == IF o > 0 THEN Len(rewritten) ELSE 1
        d == IF o > 0 THEN o ELSE 1
        length_appropriateness ==
            IF 4 * d <= 5 * r /\ 2 * r <= 3 * d THEN 20
            ELSE IF 3 * d <= 5 * r /\ r <= 2 * d THEN 15
            ELSE 10
    IN  [narrative_preservation |-> narrative_preservation,
         character_preservation |-> character_preservation,
         readability |-> readability,
         bias_improvement |-> bias_improvement,
         length_appropriateness |-> length_appropriateness,
         overall_quality |->
             RAdd(RAdd(character_preservation, bias_improvement),
                  Rat(narrative_preservation + readability
                      + length_appropriateness, 1))]

(***************************************************************************)
(* The entry point that asks the hosted language model.                    *)
(***************************************************************************)
\* sum(1 for word in words if word in s.lower())
WordsPresent(words, s) ==
    LET folded == lower(s)
    IN  Cardinality({w \in words : Contains(folded, w)})

_analyze_llm_improvements(original, rewritten, flagged) ==
    LET Gained(words) ==
            WordsPresent(words, rewritten) > WordsPresent(words, original)
        Lost(words) ==
            WordsPresent(words, rewritten) < WordsPresent(words, original)
        passive_words == {"receives", "waits", "hopes", "follows", "accepts"}
        active_words == {"decides", "chooses", "leads", "creates", "initiates"}
        appearance == {"beautiful", "pretty", "gorgeous", "stunning", "attractive"}
        independence_words ==
            {"independent", "professional", "career", "self-reliant"}
        profession == {profession_words[i] : i \in 1..Len(profession_words)}
    IN  (IF Gained(profession)
         THEN <<"Added professional identity to characters">> ELSE <<>>)
        \o (IF Gained(active_words) \/ Lost(passive_words)
            THEN <<"Improved character agency and active voice">> ELSE <<>>)
        \o (IF Lost(appearance)
            THEN <<"Reduced focus on physical appearance">> ELSE <<>>)
        \o (IF Gained(independence_words)
            THEN <<"Added independent identity alongside relationships">>
            ELSE <<>>)

\* what the call openai.ChatCompletion.create does: it returns a response
\* with the given content, raises an exception derived from Exception, or
\* is interrupted by an exception that is not (KeyboardInterrupt,
\* SystemExit)
Responded(content) == [kind |-> "ok", content |-> content]
Failed == [kind |-> "Exception", content |-> ""]
Interrupted == [kind |-> "BaseException", content |-> ""]

\* the call did not return: the exception propagated to the caller
Raised == [rewrite_type |-> "raised"]
DidRaise(result) == result.rewrite_type = Raised.rewrite_type

\* the result built from the answer of the hosted model and its log
LLMResult(original, flagged, rewritten_text, log, stream) ==
    [result |->
        RewriteResult(original, rewritten_text,
            _calculate_quality_score(original, rewritten_text, log),
            _calculate_bias_reduction(original, rewritten_text, flagged),
            log, "llm_based"),
     rng |-> stream]

\* the path of rewrite_text_llm behind a response of the hosted model
LLMAnswered(original, flagged, rewritten_text, stream) ==
    LLMResult(original, flagged, rewritten_text,
              _analyze_llm_improvements(original, rewritten_text, flagged),
              stream)

\* Mutant: a failure of the hosted call propagates to the caller.
rewrite_text_llm_Propagates(original, flagged, stream, additions, hosted) ==
    IF hosted.kind = "ok"
    THEN LLMAnswered(original, flagged, strip(hosted.content), stream)
    ELSE [result |-> Raised, rng |-> stream]

\* rewrite_text_llm(text, bias_types) when the hosted call does as given:
\* [result |-> the RewriteResult or Raised, rng |-> the generator left]
rewrite_text_llm(original, flagged, stream, additions, hosted) ==
    IF hosted.kind = "ok"
    THEN LLMAnswered(original, flagged, strip(hosted.content), stream)
    ELSE IF hosted.kind = "Exception"
    THEN rewrite_text_rule_based(original, flagged, stream, additions)
    ELSE [result |-> Raised, rng |-> stream]

(***************************************************************************)
(* Rewrite specification: one call of rewrite_text_rule_based or of        *)
(* rewrite_text_llm on a freshly constructed rewriter.  The generator has  *)
(* not been seeded by the program, so it starts in an arbitrary state.     *)
(***************************************************************************)
PriyaSample == "Priya waits for her father's decision"

\* two sentences that the same pattern of passive_to_active matches
FollowsTwice == "Priya follows Raj. Meera follows Raj."

\* a sentence that opens with a relationship marker
DaughterFirst == "Daughter of Raj, she waits"

\* the same opening, with a profession of the injection check in the text
DaughterOfDoctor == "Daughter of a doctor, she waits"

RewriteTexts ==
    { PriyaSample,
      FollowsTwice,
      DaughterFirst,
      DaughterOfDoctor,
      "",
      "Maya leads the team.",
      "The doctor waits",
      "Ria belongs to Raj's clan",
      "Beautiful Meera receives a car",
      "Priya, wife of Raj, hopes for peace",
      "Asha is pretty. Asha, daughter of Raj, gets it.",
      "gorgeous Anjali accepts it, she is stunning",
      "Kavya belongs to a family and follows her husband's advice" }

Rewritable ==
    <<"occupation_gap", "agency_gap", "appearance_focus",
      "relationship_defining">>

\* the lists of flagged dimensions explored: none, each dimension that
\* drives rewriting, a dimension that does not, and lists of several
FlaggedLists ==
    {<<>>, <<"dialogue_imbalance">>, Rewritable,
     <<"relationship_defining", "occupation_gap">>,
     <<"occupation_gap", "agency_gap">>,
     <<"agency_gap", "occupation_gap">>,
     <<"occupation_gap", "occupation_gap">>,
     <<"screen_time_imbalance", "no_such_dimension">>,
     <<"appearance_focus", "agency_gap", "screen_time_imbalance">>}
    \cup {<<Rewritable[i]>> : i \in 1..Len(Rewritable)}

\* the generator states explored: after a seeding, and two states in which
\* it keeps producing the same output
Streams ==
    {MT19937(seed) : seed \in 0..1}
    \cup {[i \in 1..Len(MT19937(0)) |-> c] : c \in {0, 6}}

\* the contents the hosted model is explored to answer with
Responses(original) ==
    { original, "She waits", "",
      " Priya decides. She works as a doctor! " }

HostedOutcomes(original) ==
    {Responded(c) : c \in Responses(original)} \cup {Failed, Interrupted}

InitRewrite ==
    /\ text \in RewriteTexts
    /\ bias_types \in FlaggedLists
    /\ rng \in Streams
    /\ llm = NotCalled
    /\ results = <<>>
    /\ profession_additions = constructed_profession_additions
    /\ units = <<>>
    /\ calls = 0
    /\ num_alternatives = 0
    /\ count = 0
    /\ NoClassifier
    /\ characters = <<>>
    /\ scores = NoScores
    /\ pc = "input"

\* the entry point returns to its caller, or raises
Returns(out, entry) ==
    /\ results' = IF DidRaise(out.result) THEN <<>> ELSE <<out.result>>
    /\ rng' = out.rng
    /\ pc' = IF DidRaise(out.result) THEN "llm_raised" ELSE entry

RewriteTextRuleBased ==
    /\ pc = "input"
    /\ Returns(rewrite_text_rule_based(text, bias_types, rng,
                                       profession_additions), "rule_based")
    /\ UNCHANGED <<text, characters, scores, bias_types, llm,
                   profession_additions, units, calls, num_alternatives, count,
                   classifier, files>>

RewriteTextLLM(hosted) ==
    /\ pc = "input"
    /\ llm' = hosted
    /\ Returns(rewrite_text_llm(text, bias_types, rng, profession_additions,
                                hosted), "llm")
    /\ UNCHANGED <<text, characters, scores, bias_types,
                   profession_additions, units, calls, num_alternatives, count,
                   classifier, files>>

NextRewrite ==
    \/ RewriteTextRuleBased
    \/ \E hosted \in HostedOutcomes(text) : RewriteTextLLM(hosted)

SpecRewrite == InitRewrite /\ [][NextRewrite]_vars

(***************************************************************************)
(* Agency specification: _analyze_character is applied to one name and a   *)
(* text that mentions it once, so that the text is the local context.      *)
(* The contexts carry every combination of active verbs and of passive     *)
(* phrases of the taxonomy.                                                *)
(***************************************************************************)
AgencyName == "Maya"

\* the keywords of the list at the given indices, in list order
Picked(keywords, indices) ==
    LET Keep(k) == \E i \in indices : keywords[i] = k
    IN  SelectSeq(keywords, Keep)

AgencyContexts ==
    { Join(<<AgencyName>> \o Picked(active_verbs, A)
                         \o Picked(passive_indicators, P), " ") \o "." :
        A \in SUBSET (1..Len(active_verbs)),
        P \in SUBSET (1..Len(passive_indicators)) }

InitAgency ==
    /\ text \in AgencyContexts
    /\ characters = <<>>
    /\ scores = NoScores
    /\ pc = "input"
    /\ NoRewriter
    /\ NoClassifier

AnalyzeCharacter ==
    /\ pc = "input"
    /\ characters' = <<_analyze_character(AgencyName, text)>>
    /\ pc' = "analyzed"
    /\ UNCHANGED <<text, scores>>
    /\ UNCHANGED rewriter_vars
    /\ UNCHANGED classifier_vars

NextAgency == AnalyzeCharacter

SpecAgency == InitAgency /\ [][NextAgency]_vars

(***************************************************************************)
(* Claims about the agency level, checked under SpecAgency.                *)
(***************************************************************************)
\* the number of keywords of the list that occur in the lower-cased text
PresentCount(keywords, txt) ==
    Cardinality({i \in 1..Len(keywords) : Contains(lower(txt), keywords[i])})

\* C11: the agency level of an analysed character is 5 plus the number of
\* distinct active verbs present in its context minus the number of
\* distinct passive phrases present, clamped to 1..10; it is an integer
\* in 1..10.
C11_AgencyLevelClamped ==
    pc = "analyzed" =>
        LET level == characters[1].agency_level
            raw == 5 + PresentCount(active_verbs, text)
                     - PresentCount(passive_indicators, text)
        IN  /\ level \in 1..10
            /\ raw > 10 => level = 10
            /\ raw < 1 => level = 1
            /\ raw \in 1..10 => level = raw

\* a context with more than five active verbs and no passive phrase has
\* been analysed, so that the cap at 10 applied
C11_Witness ==
    /\ pc = "analyzed"
    /\ PresentCount(active_verbs, text) > 5
    /\ PresentCount(passive_indicators, text) = 0
    /\ characters[1].agency_level = 10

(***************************************************************************)
(* Claims about one rewrite call, checked under SpecRewrite.               *)
(***************************************************************************)
Returned == pc \in {"rule_based", "llm"}

\* no indicator pattern occurs in the text, whatever the case
NoIndicator(s) ==
    \A k \in 1..Len(bias_indicators) : ~Contains(lower(s), bias_indicators[k])

\* C12: the bias reduction score of every result lies in 0..100, it is
\* never negative.
C12_BiasReductionWithin0to100 ==
    Returned =>
        /\ RLeq(Zero, results[1].bias_reduction)
        /\ RLeq(results[1].bias_reduction, Rat(100, 1))

\* C13: when the original text has no indicator hit, the bias reduction
\* score is exactly 50 whatever the rewritten text and the flagged
\* dimensions are.
C13_BaselineFifty ==
    (Returned /\ NoIndicator(text)) => results[1].bias_reduction = Rat(50, 1)

\* an original without indicators has been rewritten by the hosted model to
\* another text, with dimensions flagged
C13_Witness ==
    /\ pc = "llm"
    /\ NoIndicator(text)
    /\ bias_types # <<>>
    /\ results[1].rewritten_text # text
    /\ ~NoIndicator(results[1].rewritten_text)
    /\ results[1].bias_reduction = Rat(50, 1)

\* the result as the harness expects it: with the bias reduction under the
\* attribute name bias_reduction_score
WithReductionScore(result) ==
    [original_text |-> result.original_text,
     rewritten_text |-> result.rewritten_text,
     quality_score |-> result.quality_score,
     bias_reduction_score |-> result.bias_reduction,
     improvements |-> result.improvements,
     rewrite_type |-> result.rewrite_type]

\* C14: the quality score stored in a result equals the sum of the five
\* rubric components that the evaluation harness computes for the same
\* original and rewritten text.
C14_QualityEqualsRubric ==
    Returned =>
        results[1].quality_score =
            _evaluate_single_rewrite(text,
                WithReductionScore(results[1])).overall_quality

\* C15: a rule-based result for which at least two rules fired has a
\* quality score of at least 60.
C15_QualityAtLeast60 ==
    (pc = "rule_based" /\ Len(results[1].improvements) >= 2) =>
        RLeq(Rat(60, 1), results[1].quality_score)

WaitsForAlternatives ==
    {agency_replacements[1][2][i] : i \in 1..Len(agency_replacements[1][2])}

\* C20: rewriting the Priya sample with only agency_gap flagged replaces
\* "waits for" by one of the configured active phrases and logs an
\* improvement, whatever the generator produces.
C20_PriyaSample ==
    (pc = "rule_based" /\ text = PriyaSample /\ bias_types = <<"agency_gap">>)
        => /\ ~Contains(results[1].rewritten_text, "waits for")
           /\ \E phrase \in WaitsForAlternatives :
                  results[1].rewritten_text =
                      "Priya " \o phrase \o " her father's decision"
           /\ results[1].improvements # <<>>

C20_Witness ==
    /\ pc = "rule_based"
    /\ text = PriyaSample
    /\ bias_types = <<"agency_gap">>
    /\ results[1].rewritten_text = "Priya actively seeks her father's decision"

(***************************************************************************)
(* Batch drivers: batch_rewrite of the rewriter, evaluate_rewrite_quality  *)
(* of the evaluator, and                                                   *)
(* analyze_dataset_sequential and analyze_dataset_parallel of              *)
(* scripts/analyze_full_dataset.py, which call analyze_movie of the        *)
(* detection model on every movie of processed_movies.json.                *)
(***************************************************************************)
MaxBatch == 3

\* an element of the list texts: a string, or a value that is not one
\* (None, a NaN of a data frame)
TextUnit(s) == [kind |-> "str", text |-> s]
NoneUnit == [kind |-> "None", text |-> ""]

\* a movie as the preprocessing writes it: a dict with its metadata and its
\* content length; analysis is what analyze_movie does on it
Movie(title, length, analysis) ==
    [kind |-> "movie", title |-> title, total_content_length |-> length,
     analysis |-> analysis]

\* the value None
None == [kind |-> "None"]

\* the call raised an exception derived from Exception
AnalysisRaised == [kind |-> "raised"]

\* model.analyze_movie(movie_data): a result that carries the metadata of
\* the movie, no result, or an exception
analyze_movie(movie_data) ==
    CASE movie_data.analysis = "result" ->
             [kind |-> "result",
              movie_metadata |-> [title |-> movie_data.title]]
      [] movie_data.analysis = "None" -> None
      [] movie_data.analysis = "raises" -> AnalysisRaised

\* try: return self.model.analyze_movie(movie_data)
\* except Exception: return None
analyze_single_movie(movie_data) ==
    IF analyze_movie(movie_data) = AnalysisRaised THEN None
    ELSE analyze_movie(movie_data)

\* [movie for movie in movies_data
\*  if movie.get('total_content_length', 0) > 500]
valid_movies(movies_data) ==
    LET Sufficient(movie) == movie.total_content_length > 500
    IN  SelectSeq(movies_data, Sufficient)

\* the results of analyze_single_movie on the movies, in their order
MapSingleMovie(movies) ==
    [k \in 1..Len(movies) |-> analyze_single_movie(movies[k])]

\* the loop keeps a result that is truthy; an exception that reaches the
\* loop body is logged and the loop continues
analyze_dataset_sequential(movies_data) ==
    LET Kept(result) == result.kind = "result"
    IN  SelectSeq(MapSingleMovie(valid_movies(movies_data)), Kept)

\* pool.map re-raises in the caller the exception of a worker; the results
\* that are not None are kept
analyze_dataset_parallel(movies_data) ==
    LET NotNone(result) == result # None
        mapped == MapSingleMovie(valid_movies(movies_data))
    IN  IF \E k \in 1..Len(mapped) : mapped[k] = AnalysisRaised
        THEN [raised |-> TRUE, results |-> <<>>]
        ELSE [raised |-> FALSE, results |-> SelectSeq(mapped, NotNone)]

\* rewrite_text_rule_based on an element of texts: re.findall (line 159)
\* raises TypeError on a value that is not a string, before anything is
\* drawn
RewriteUnit(unit, flagged, stream, additions) ==
    IF unit.kind = "str"
    THEN rewrite_text_rule_based(unit.text, flagged, stream, additions)
    ELSE [result |-> Raised, rng |-> stream]

\* results.append(result), or the exception leaves the loop
AppendUnit(acc, out) ==
    IF DidRaise(out.result)
    THEN [raised |-> TRUE, results |-> <<>>, rng |-> out.rng]
    ELSE [raised |-> FALSE, results |-> Append(acc.results, out.result),
          rng |-> out.rng]

RECURSIVE BatchRewriteFrom(_, _, _, _, _)
\* the loop of batch_rewrite from index k on
BatchRewriteFrom(texts, k, flagged, acc, additions) ==
    IF k > Len(texts) \/ acc.raised THEN acc
    ELSE BatchRewriteFrom(texts, k + 1, flagged,
             AppendUnit(acc, RewriteUnit(texts[k], flagged, acc.rng,
                                         additions)),
             additions)

\* batch_rewrite(texts, bias_types) run with the generator in the given
\* state: [raised, results, rng]
batch_rewrite(texts, flagged, stream, additions) ==
    BatchRewriteFrom(texts, 1, flagged,
        [raised |-> FALSE, results |-> <<>>, rng |-> stream], additions)

(***************************************************************************)
(* evaluate_rewrite_quality of evaluation/metrics_evaluator.py             *)
(* (BiasDetectionEvaluator), run on a rewriter and a list of test cases.   *)
(***************************************************************************)
\* np.mean of the empty list
NaN == <<0, 0>>

\* np.mean(values)
Mean(values) == IF values = <<>> THEN NaN ELSE RMean(values)

\* both lists get the error value 0 in the except branch
RecordError(acc, stream) ==
    [individual_scores |-> Append(acc.individual_scores, Zero),
     individual_bias_reductions |-> Append(acc.individual_bias_reductions, Zero),
     rng |-> stream]

\* the body of the try block once the rewrite has returned: the rubric,
\* then the two appends
RecordScores(acc, test_case, out) ==
    IF "bias_reduction_score" \notin DOMAIN out.result
    THEN RecordError(acc, out.rng)
    ELSE [individual_scores |->
              Append(acc.individual_scores,
                     _evaluate_single_rewrite(test_case, out.result).overall_quality),
          individual_bias_reductions |->
              Append(acc.individual_bias_reductions,
                     out.result.bias_reduction_score),
          rng |-> out.rng]

\* one iteration of the loop over test_cases
EvaluateCase(acc, test_case, out) ==
    IF DidRaise(out.result) THEN RecordError(acc, out.rng)
    ELSE RecordScores(acc, test_case.text, out)

RECURSIVE EvaluateFrom(_, _, _)
\* the loop over test_cases from the first case not yet recorded on
EvaluateFrom(test_cases, acc, additions) ==
    IF Len(acc.individual_scores) >= Len(test_cases) THEN acc
    ELSE EvaluateFrom(test_cases,
             EvaluateCase(acc, test_cases[Len(acc.individual_scores) + 1],
                 RewriteUnit(test_cases[Len(acc.individual_scores) + 1],
                             Rewritable, acc.rng, additions)),
             additions)

\* the metrics dictionary built from the two lists
RewriteQualityMetrics(done) ==
    [average_quality_score |-> Mean(done.individual_scores),
     quality_5_point_scale |->
         IF done.individual_scores = <<>> THEN NaN
         ELSE Rat(RMean(done.individual_scores)[1],
                  RMean(done.individual_scores)[2] * 20),
     average_bias_reduction |-> Mean(done.individual_bias_reductions),
     meets_quality_target |->
         /\ done.individual_scores # <<>>
         /\ RLeq(Rat(80, 1), RMean(done.individual_scores)),
     individual_scores |-> done.individual_scores,
     individual_bias_reductions |-> done.individual_bias_reductions]

\* evaluate_rewrite_quality(rewriter, test_cases) run with the generator
\* in the given state: [metrics, rng]
evaluate_rewrite_quality(test_cases, stream, additions) ==
    LET done == EvaluateFrom(test_cases,
                    [individual_scores |-> <<>>,
                     individual_bias_reductions |-> <<>>,
                     rng |-> stream], additions)
    IN  [metrics |-> RewriteQualityMetrics(done), rng |-> done.rng]

(***************************************************************************)
(* Batch specification: one driver runs on one batch.                      *)
(***************************************************************************)
BatchTexts == {PriyaSample, "Asha is pretty"}

TextUnits == {TextUnit(s) : s \in BatchTexts} \cup {NoneUnit}

Movies ==
    {Movie(title, length, analysis) :
        title \in {"Sholay", "Lagaan"}, length \in {400, 600},
        analysis \in {"result", "None", "raises"}}

\* the lists of at most MaxBatch elements of the set
Batches(S) ==
    UNION {[1..n -> S] : n \in 0..MaxBatch}

InitBatch ==
    /\ \/ /\ units \in Batches(TextUnits)
          /\ bias_types \in {<<"agency_gap">>, <<"appearance_focus">>}
          /\ rng \in {MT19937(0), MT19937(1)}
       \/ /\ units \in Batches(Movies)
          /\ bias_types = <<>>
          /\ rng = MT19937(0)
    /\ profession_additions = constructed_profession_additions
    /\ llm = NotCalled
    /\ results = <<>>
    /\ calls = 0
    /\ num_alternatives = 0
    /\ count = 0
    /\ NoClassifier
    /\ text = ""
    /\ characters = <<>>
    /\ scores = NoScores
    /\ pc = "batch_input"

AreTexts(batch) == \A k \in 1..Len(batch) : batch[k].kind \in {"str", "None"}

AreMovies(batch) == \A k \in 1..Len(batch) : batch[k].kind = "movie"

\* the driver returns its list to the caller, or raises
BatchReturns(out, driver) ==
    /\ results' = out.results
    /\ pc' = IF out.raised THEN driver \o "_raised" ELSE driver

\* batch_rewrite returns or raises, and leaves the generator as its last
\* rewrite left it
BatchRewriteReturns(out) ==
    /\ BatchReturns(out, "batch_rewrite")
    /\ rng' = out.rng

BatchRewrite ==
    /\ pc = "batch_input"
    /\ AreTexts(units)
    /\ BatchRewriteReturns(batch_rewrite(units, bias_types, rng,
                                         profession_additions))
    /\ UNCHANGED <<text, characters, scores, bias_types, llm,
                   profession_additions, units, calls, num_alternatives, count,
                   classifier, files>>

AnalyzeDatasetSequential ==
    /\ pc = "batch_input"
    /\ AreMovies(units)
    /\ results' = analyze_dataset_sequential(units)
    /\ pc' = "analyze_dataset_sequential"
    /\ UNCHANGED <<text, characters, scores, bias_types, rng, llm,
                   profession_additions, units, calls, num_alternatives, count,
                   classifier, files>>

AnalyzeDatasetParallel ==
    /\ pc = "batch_input"
    /\ AreMovies(units)
    /\ BatchReturns(analyze_dataset_parallel(units),
                    "analyze_dataset_parallel")
    /\ UNCHANGED <<text, characters, scores, bias_types, rng, llm,
                   profession_additions, units, calls, num_alternatives, count,
                   classifier, files>>

\* the evaluator returns the metrics dictionary
EvaluationReturns(out) ==
    /\ results' = <<out.metrics>>
    /\ rng' = out.rng
    /\ pc' = "evaluate_rewrite_quality"

EvaluateRewriteQuality ==
    /\ pc = "batch_input"
    /\ AreTexts(units)
    /\ EvaluationReturns(evaluate_rewrite_quality(units, rng,
                                                  profession_additions))
    /\ UNCHANGED <<text, characters, scores, bias_types, llm,
                   profession_additions, units, calls, num_alternatives, count,
                   classifier, files>>

NextBatch ==
    \/ BatchRewrite
    \/ EvaluateRewriteQuality
    \/ AnalyzeDatasetSequential
    \/ AnalyzeDatasetParallel

SpecBatch == InitBatch /\ [][NextBatch]_vars

(***************************************************************************)
(* Claim about the batch drivers, checked under SpecBatch.                 *)
(***************************************************************************)
\* the driver has returned or raised
BatchDone(driver) == pc \in {driver, driver \o "_raised"}

\* C17: a failure on one unit never aborts the others: each unit of the
\* batch that succeeds when the driver processes it alone has its result
\* in the output of the driver on the batch.
C17_FailureDoesNotAbortOthers ==
    /\ BatchDone("batch_rewrite") =>
          \A k \in 1..Len(units) :
              ~batch_rewrite(<<units[k]>>, bias_types, MT19937(0),
                             profession_additions).raised
                  => \E j \in 1..Len(results) :
                         results[j].original_text = units[k].text
    /\ BatchDone("analyze_dataset_sequential") =>
          \A k \in 1..Len(units) :
              \A j \in 1..Len(analyze_dataset_sequential(<<units[k]>>)) :
                  \E n \in 1..Len(results) :
                      results[n] = analyze_dataset_sequential(<<units[k]>>)[j]
    /\ BatchDone("analyze_dataset_parallel") =>
          \A k \in 1..Len(units) :
              \A j \in 1..Len(analyze_dataset_parallel(<<units[k]>>).results) :
                  \E n \in 1..Len(results) :
                      results[n] =
                          analyze_dataset_parallel(<<units[k]>>).results[j]

(***************************************************************************)
(* The entry points that return several rewrites.                          *)
(***************************************************************************)
RMax(a, b) == IF RLess(a, b) THEN b ELSE a

\* result.quality_score = max(60, result.quality_score - variation_index * 5)
\* for the rewrite made with the list written into the rule table
AdjustQuality(out, variation_index, table) ==
    [result |->
        [out.result EXCEPT !.quality_score =
            RMax(Rat(60, 1), RSub(@, Rat(variation_index * 5, 1)))],
     rng |-> out.rng,
     additions |-> table]

\* the list that line 520 leaves in
\* rewrite_patterns['occupation_gap']['profession_additions']
VariationTable(additions, variation_index) ==
    IF variation_index < Len(profession_sets)
    THEN profession_sets[variation_index + 1]
    ELSE additions

\* _create_rule_based_variation(text, bias_types, variation_index):
\* [result, rng, additions |-> the list left in the rule table]
_create_rule_based_variation(original, flagged, stream, additions, variation_index) ==
    AdjustQuality(
        rewrite_text_rule_based(original, flagged, stream,
            VariationTable(additions, variation_index)),
        variation_index, VariationTable(additions, variation_index))

\* the position at which a rewrite of the given quality goes into a list
\* sorted by descending quality, behind its equals
SortPosition(sorted, quality) ==
    Cardinality({j \in 1..Len(sorted) :
                    RLeq(quality, sorted[j].quality_score)})

RECURSIVE SortFrom(_, _, _)
\* rewrites.sort(key=lambda x: x.quality_score, reverse=True): the stable
\* sort, by insertion of rewrites[k], rewrites[k + 1], ...
SortFrom(rewrites, k, sorted) ==
    IF k > Len(rewrites) THEN sorted
    ELSE SortFrom(rewrites, k + 1,
             SubSeq(sorted, 1, SortPosition(sorted, rewrites[k].quality_score))
             \o <<rewrites[k]>>
             \o SubSeq(sorted,
                       SortPosition(sorted, rewrites[k].quality_score) + 1,
                       Len(sorted)))

SortByQuality(rewrites) == SortFrom(rewrites, 1, <<>>)

\* the list is sorted and returned
SortedReturn(acc) == [acc EXCEPT !.rewrites = SortByQuality(@)]

\* rewrites.append(...) of a rewrite that leaves the rule table alone
Appended(acc, out) ==
    [rewrites |-> Append(acc.rewrites, out.result),
     rng |-> out.rng,
     additions |-> acc.additions]

\* rewrites.append(variation)
AppendedVariation(acc, variation) ==
    [rewrites |-> Append(acc.rewrites, variation.result),
     rng |-> variation.rng,
     additions |-> variation.additions]

\* one iteration of the loop of generate_multiple_rewrites: the bare except
\* catches whatever rewrite_text_llm raised
TryLLM(original, flagged, acc, out, variation_index) ==
    IF DidRaise(out.result)
    THEN AppendedVariation(acc,
             _create_rule_based_variation(original, flagged, out.rng,
                                          acc.additions, variation_index))
    ELSE Appended(acc, out)

RECURSIVE GenerateFrom(_, _, _, _, _)
\* for i in range(count - 1): iteration i starts with i + 1 rewrites in the
\* list; hosted[i + 1] is what the hosted call of iteration i does
GenerateFrom(original, flagged, n, acc, hosted) ==
    IF Len(acc.rewrites) >= n THEN acc
    ELSE GenerateFrom(original, flagged, n,
             TryLLM(original, flagged, acc,
                    rewrite_text_llm(original, flagged, acc.rng,
                                     acc.additions,
                                     hosted[Len(acc.rewrites)]),
                    Len(acc.rewrites) - 1),
             hosted)

\* the list after the rule-based rewrite that generate_multiple_rewrites
\* starts with
RuleBasedFirst(out, additions) ==
    [rewrites |-> <<out.result>>, rng |-> out.rng, additions |-> additions]

\* generate_multiple_rewrites(text, bias_types, count):
\* [rewrites, rng, additions]
generate_multiple_rewrites(original, flagged, n, stream, additions, hosted) ==
    SortedReturn(
        GenerateFrom(original, flagged, n,
            RuleBasedFirst(
                rewrite_text_rule_based(original, flagged, stream, additions),
                additions),
            hosted))

RECURSIVE AlternativesFrom(_, _, _, _)
\* for i in range(num_alternatives): random.seed(i); ...: iteration i
\* starts with i alternatives in the list
AlternativesFrom(original, flagged, n, acc) ==
    IF Len(acc.rewrites) >= n THEN acc
    ELSE AlternativesFrom(original, flagged, n,
             Appended(acc,
                 rewrite_text_rule_based(original, flagged,
                     MT19937(Len(acc.rewrites)), acc.additions)))

\* rewrite_multiple_alternatives(text, bias_types, num_alternatives):
\* [rewrites, rng, additions]
rewrite_multiple_alternatives(original, flagged, n, stream, additions) ==
    SortedReturn(
        AlternativesFrom(original, flagged, n,
            [rewrites |-> <<>>, rng |-> stream, additions |-> additions]))

(***************************************************************************)
(* Session specification: a rewriter is constructed and at most MaxCalls   *)
(* entry-point calls are made on it, one after the other.                  *)
(***************************************************************************)
MaxCalls == 2

SessionTexts == {"Asha is pretty", "Priya, wife of Raj, hopes for peace"}

SessionFlagged == {<<"occupation_gap">>, <<"appearance_focus">>}

SessionOutcomes == {Responded("She waits"), Failed, Interrupted}

\* the values of count with which generate_multiple_rewrites is called
SessionCounts == 0..3

\* what the hosted calls of one generate_multiple_rewrites call do: one
\* outcome for each of the range(count - 1) iterations
SessionHosted ==
    {<<>>, <<Failed>>, <<Interrupted>>,
     <<Responded("She waits"), Interrupted>>, <<Interrupted, Interrupted>>}

\* len(range(count - 1))
Iterations(n) == IF n > 1 THEN n - 1 ELSE 0

InitSession ==
    /\ rng \in {MT19937(0), MT19937(1)}
    /\ profession_additions = constructed_profession_additions
    /\ llm = NotCalled
    /\ results = <<>>
    /\ calls = 0
    /\ text = ""
    /\ bias_types = <<>>
    /\ units = <<>>
    /\ num_alternatives = 0
    /\ count = 0
    /\ NoClassifier
    /\ characters = <<>>
    /\ scores = NoScores
    /\ pc = "constructed"

\* the call is made with the given arguments
Called(original, flagged) ==
    /\ calls < MaxCalls
    /\ calls' = calls + 1
    /\ text' = original
    /\ bias_types' = flagged
    /\ UNCHANGED <<characters, scores, classifier, files>>

\* a single-result entry point returns or raises
ReturnsOne(out, entry) ==
    /\ results' = IF DidRaise(out.result) THEN <<>> ELSE <<out.result>>
    /\ rng' = out.rng
    /\ pc' = IF DidRaise(out.result) THEN entry \o "_raised" ELSE entry

\* a list entry point returns; it leaves the generator and the rule table
\* as its last rewrite left them
ReturnsList(out, entry) ==
    /\ results' = out.rewrites
    /\ rng' = out.rng
    /\ profession_additions' = out.additions
    /\ pc' = entry

CallRuleBased(original, flagged) ==
    /\ Called(original, flagged)
    /\ ReturnsOne(rewrite_text_rule_based(original, flagged, rng,
                      profession_additions), "rewrite_text_rule_based")
    /\ UNCHANGED <<llm, profession_additions, units, num_alternatives, count>>

CallLLM(original, flagged, hosted) ==
    /\ Called(original, flagged)
    /\ llm' = hosted
    /\ ReturnsOne(rewrite_text_llm(original, flagged, rng,
                      profession_additions, hosted), "rewrite_text_llm")
    /\ UNCHANGED <<profession_additions, units, num_alternatives, count>>

CallGenerate(original, flagged, n, hosted) ==
    /\ Len(hosted) = Iterations(n)
    /\ Called(original, flagged)
    /\ count' = n
    /\ llm' = IF hosted = <<>> THEN llm ELSE hosted[Len(hosted)]
    /\ ReturnsList(generate_multiple_rewrites(original, flagged, n, rng,
                       profession_additions, hosted),
                   "generate_multiple_rewrites")
    /\ UNCHANGED <<units, num_alternatives>>

CallAlternatives(original, flagged, n) ==
    /\ Called(original, flagged)
    /\ num_alternatives' = n
    /\ ReturnsList(rewrite_multiple_alternatives(original, flagged, n, rng,
                       profession_additions),
                   "rewrite_multiple_alternatives")
    /\ UNCHANGED <<llm, units, count>>

CallBatch(texts, flagged) ==
    /\ Called("", flagged)
    /\ units' = texts
    /\ BatchRewriteReturns(batch_rewrite(texts, flagged, rng,
                                         profession_additions))
    /\ UNCHANGED <<llm, profession_additions, num_alternatives, count>>

NextSession ==
    \/ \E original \in SessionTexts, flagged \in SessionFlagged :
           \/ CallRuleBased(original, flagged)
           \/ \E hosted \in SessionOutcomes :
                  CallLLM(original, flagged, hosted)
           \/ \E n \in SessionCounts, hosted \in SessionHosted :
                  CallGenerate(original, flagged, n, hosted)
           \/ \E n \in 2..3 : CallAlternatives(original, flagged, n)
    \/ \E texts \in [1..2 -> {TextUnit(s) : s \in SessionTexts}],
          flagged \in SessionFlagged :
           CallBatch(texts, flagged)

SpecSession == InitSession /\ [][NextSession]_vars

(***************************************************************************)
(* Claim about the state shared between calls, checked under SpecSession.  *)
(***************************************************************************)
\* C18: no entry point writes state shared between calls: after any
\* sequence of calls the rule table of the rewriter equals the value it
\* had at construction.
C18_TablesAsConstructed ==
    profession_additions = constructed_profession_additions

\* C30: generate_multiple_rewrites(text, flagged, count) returns exactly
\* count rewrite results for every count, whether each hosted-model attempt
\* succeeds, fails and falls back, or raises.
C30_ExactlyCountResults ==
    pc = "generate_multiple_rewrites" => Len(results) = count

(***************************************************************************)
(* Alternatives specification: rewrite_multiple_alternatives runs          *)
(* statement by statement while other rewrite calls of the same process    *)
(* (another thread) run in between.  random.seed and random.choice act on  *)
(* the one module-level generator of the process.  A call that runs in     *)
(* between is taken as a whole, between two statements of the loop.        *)
(***************************************************************************)
MaxOtherCalls == 2

AlternativeTexts ==
    {PriyaSample, "Asha is pretty", "Beautiful Meera receives a car"}

AlternativeFlagged == {<<"agency_gap">>, <<"appearance_focus">>}

\* the text of a rewrite call made in between, with appearance_focus flagged
OtherTexts ==
    {"gorgeous Anjali accepts it, she is stunning", "Maya leads the team."}

InitAlternatives ==
    /\ text \in AlternativeTexts
    /\ bias_types \in AlternativeFlagged
    /\ num_alternatives \in 1..3
    /\ count = 0
    /\ rng = MT19937(3)
    /\ profession_additions = constructed_profession_additions
    /\ llm = NotCalled
    /\ results = <<>>
    /\ calls = 0
    /\ units = <<>>
    /\ NoClassifier
    /\ characters = <<>>
    /\ scores = NoScores
    /\ pc = "seed"

\* random.seed(i) for the iteration i = len(alternatives)
Seed ==
    /\ pc = "seed"
    /\ rng' = MT19937(Len(results))
    /\ pc' = "rewrite"
    /\ UNCHANGED <<text, characters, scores, bias_types, llm, results,
                   profession_additions, units, calls, num_alternatives, count,
                   classifier, files>>

\* alternatives.append(result), and the loop goes on or ends
AppendAlternative(out) ==
    /\ results' = Append(results, out.result)
    /\ rng' = out.rng
    /\ pc' = IF Len(results) + 1 < num_alternatives THEN "seed" ELSE "sort"

\* result = self.rewrite_text_rule_based(text, bias_types)
RewriteAlternative ==
    /\ pc = "rewrite"
    /\ AppendAlternative(rewrite_text_rule_based(text, bias_types, rng,
                                                 profession_additions))
    /\ UNCHANGED <<text, characters, scores, bias_types, llm,
                   profession_additions, units, calls, num_alternatives, count,
                   classifier, files>>

\* alternatives.sort(...); return alternatives
SortAlternatives ==
    /\ pc = "sort"
    /\ results' = SortByQuality(results)
    /\ pc' = "returned"
    /\ UNCHANGED <<text, characters, scores, bias_types, rng, llm,
                   profession_additions, units, calls, num_alternatives, count,
                   classifier, files>>

\* another rewrite call of the process runs: it draws from the generator
OtherCall(other) ==
    /\ pc \in {"seed", "rewrite", "sort"}
    /\ calls < MaxOtherCalls
    /\ calls' = calls + 1
    /\ rng' = rewrite_text_rule_based(other, <<"appearance_focus">>, rng,
                                      profession_additions).rng
    /\ UNCHANGED <<text, characters, scores, pc, bias_types, llm, results,
                   profession_additions, units, num_alternatives, count,
                   classifier, files>>

NextAlternatives ==
    \/ Seed
    \/ RewriteAlternative
    \/ SortAlternatives
    \/ \E other \in OtherTexts : OtherCall(other)

SpecAlternatives == InitAlternatives /\ [][NextAlternatives]_vars

(***************************************************************************)
(* Claim about the alternatives, checked under SpecAlternatives.           *)
(***************************************************************************)
\* C19: the rewritten text of alternative i depends only on the text, the
\* flagged dimensions and i: it is the text that the rule-based path
\* produces from the generator seeded with i, also when other rewrite
\* calls run in between.
C19_AlternativeDependsOnIndexOnly ==
    pc \in {"seed", "rewrite", "sort"} =>
        \A i \in 1..Len(results) :
            results[i].rewritten_text =
                rewrite_text_rule_based(text, bias_types, MT19937(i - 1),
                    profession_additions).result.rewritten_text

(***************************************************************************)
(* Claims about the steps of rewrite_text_rule_based, checked under        *)
(* SpecRewrite.                                                            *)
(***************************************************************************)
\* the index of the first rule of the list whose pattern matches s, 0 when
\* none does
FirstMatching(s, rules) ==
    LET matching == {j \in 1..Len(rules) : Search(s, 1, rules[j]) > 0}
    IN  IF matching = {} THEN 0 ELSE Min(matching)

\* the pattern of the rule matches s, and again behind its first match
MatchesTwice(s, p) ==
    LET i == Search(s, 1, p)
    IN  i > 0 /\ Search(s, MatchEnd(s, i, p) + 1, p) > 0

\* C21: a structural rule of a flagged dimension rewrites only the first
\* match of its pattern and leaves every later match as it was.  When one
\* dimension is flagged, the first of its rules that matches the text
\* matches it at two places, and the log has the one entry of that rule
\* (no other rule or pass fired), the rewritten text is the text with the
\* first match replaced.
C21_OnlyFirstMatchRewritten ==
    (pc = "rule_based" /\ Len(bias_types) = 1
                       /\ Len(results[1].improvements) = 1) =>
        LET rules == RulesOf(bias_types[1])
            j == FirstMatching(text, rules)
        IN  (j > 0 /\ MatchesTwice(text, rules[j])) =>
                results[1].rewritten_text = SubFirst(text, rules[j])

RECURSIVE StructuralRules(_, _, _)
\* the structural rules of the flagged dimensions from index k on, in the
\* order of the list, without the profession injection
StructuralRules(st, flagged, k) ==
    IF k > Len(flagged) THEN st
    ELSE StructuralRules(
             ApplyRules(st, RulesOf(flagged[k]), 1, NoteOf(flagged[k])),
             flagged, k + 1)

\* the profession injection, made when occupation_gap is flagged
InjectionStep(st, flagged, additions) ==
    IF Flagged(flagged, "occupation_gap") THEN InjectProfession(st, additions)
    ELSE st

\* the passes in the order structural rules of every flagged dimension,
\* profession injection, dedicated passes
FixedOrderPasses(original, flagged, stream, additions) ==
    RelationshipPass(
        OccupationPass(
            AgencyPass(
                AppearancePass(
                    InjectionStep(
                        StructuralRules(Pass(original, <<>>, stream), flagged, 1),
                        flagged, additions),
                    flagged),
                flagged),
            flagged),
        flagged)

\* C22: the profession injection is decided and made only after the
\* structural rules of every flagged dimension have been applied, wherever
\* occupation_gap stands in the list: the text returned is the text that
\* the order structural rules, injection, dedicated passes yields for the
\* same generator.
C22_InjectionAfterAllStructuralRules ==
    [][(pc = "input" /\ pc' = "rule_based") =>
          results'[1].rewritten_text =
              FixedOrderPasses(text, bias_types, rng,
                               profession_additions).text]_vars

\* none of the four dimensions that drive rewriting is in the list
NoneRewritable(flagged) ==
    \A k \in 1..Len(flagged) :
        \A d \in 1..Len(Rewritable) : flagged[k] # Rewritable[d]

\* C23: when none of occupation_gap, agency_gap, appearance_focus and
\* relationship_defining is flagged (the list is empty or holds only
\* scoring-only or unknown identifiers), the rule-based rewrite returns
\* the original text as rewritten text and an empty improvements log.
C23_OnlyFourDimensionsRewrite ==
    (pc = "rule_based" /\ NoneRewritable(bias_types)) =>
        /\ results[1].original_text = text
        /\ results[1].rewritten_text = text
        /\ results[1].improvements = <<>>

\* a text that rules of two dimensions match and that holds a phrase of the
\* agency pass was returned unchanged for a list of a scoring-only and an
\* unknown identifier
C23_Witness ==
    /\ pc = "rule_based"
    /\ bias_types = <<"screen_time_imbalance", "no_such_dimension">>
    /\ text = "Priya, wife of Raj, hopes for peace"
    /\ FirstMatching(text, occupation_gap_patterns) > 0
    /\ FirstMatching(text, add_independence) > 0
    /\ Contains(text, agency_replacements[2][1])
    /\ results[1].rewritten_text = text
    /\ results[1].improvements = <<>>

\* the relationship markers
relationship_markers == <<"daughter of", "wife of", "sister of", "belongs to">>

\* C24: with relationship_defining flagged the rewrite adds qualifiers
\* alongside relationship markers and never removes one: each marker
\* occurs in the rewritten text at least as many times, ignoring case, as
\* in the original text.
C24_MarkersKept ==
    (pc = "rule_based" /\ Flagged(bias_types, "relationship_defining")) =>
        \A m \in 1..Len(relationship_markers) :
            Count(lower(results[1].rewritten_text), relationship_markers[m])
                >= Count(lower(text), relationship_markers[m])

\* C27: the improvements log records exactly the rules that changed the
\* text: the rule-based rewrite returns an empty log if and only if the
\* rewritten text equals the original text.
C27_LogEmptyIffUnchanged ==
    pc = "rule_based" =>
        (results[1].improvements = <<>> <=> results[1].rewritten_text = text)

\* the dimensions of a list, as a set
AsSet(flagged) == {flagged[k] : k \in 1..Len(flagged)}

\* C28: the flagged dimensions act as a set: for the same text and the
\* same generator, every list of the same dimensions (in another order,
\* or with a dimension listed twice) yields the same rewritten text and
\* the same improvements log.
C28_FlaggedActAsSet ==
    [][(pc = "input" /\ pc' = "rule_based") =>
          \A other \in FlaggedLists :
              AsSet(other) = AsSet(bias_types) =>
                  LET r == rewrite_text_rule_based(text, other, rng,
                               profession_additions).result
                  IN  /\ r.rewritten_text = results'[1].rewritten_text
                      /\ r.improvements = results'[1].improvements]_vars

(***************************************************************************)
(* Claim about evaluate_rewrite_quality, checked under SpecBatch.          *)
(***************************************************************************)
\* C29: every test case on which the rule-based rewrite returns a result
\* is scored with the rubric: the error value 0 is recorded as individual
\* score only for a test case whose rewrite itself failed, and for the
\* first test case the individual score is the rubric's overall_quality
\* of the rewrite and the recorded bias reduction is the bias-reduction
\* score of that rewrite.
C29_EveryRewriteScored ==
    [][(pc = "batch_input" /\ pc' = "evaluate_rewrite_quality") =>
          LET metrics == results'[1] IN
          /\ Len(metrics.individual_scores) = Len(units)
          /\ \A k \in 1..Len(units) :
                 units[k].kind = "str" => metrics.individual_scores[k] # Zero
          /\ (units # <<>> /\ units[1].kind = "str") =>
                 LET first == rewrite_text_rule_based(units[1].text,
                                  Rewritable, rng, profession_additions).result
                 IN  /\ metrics.individual_scores[1] =
                            _evaluate_single_rewrite(units[1].text,
                                WithReductionScore(first)).overall_quality
                     /\ metrics.individual_bias_reductions[1] =
                            first.bias_reduction]_vars

(***************************************************************************)
(* The classifier of models/bias_classifier.py.  The estimators of         *)
(* scikit-learn are modelled by whether they have been fitted; a model     *)
(* file holds the dictionary that save_models dumped.                      *)
(***************************************************************************)
\* the estimators in the order in which train_classifiers fits them
Estimators ==
    <<"vectorizer", "occupation_classifier", "agency_classifier",
      "appearance_classifier", "relationship_classifier">>

\* the fields of a classifier of which the first k estimators are fitted
ClassifierState(k, metrics, trained) ==
    [vectorizer |-> IF k >= 1 THEN "fitted" ELSE "unfitted",
     occupation_classifier |-> IF k >= 2 THEN "fitted" ELSE "unfitted",
     agency_classifier |-> IF k >= 3 THEN "fitted" ELSE "unfitted",
     appearance_classifier |-> IF k >= 4 THEN "fitted" ELSE "unfitted",
     relationship_classifier |-> IF k >= 5 THEN "fitted" ELSE "unfitted",
     performance_metrics |-> metrics,
     is_trained |-> trained]

\* BiasClassifier()
constructed_classifier == ClassifierState(0, "{}", FALSE)

\* the number of fitted estimators at the head of the training order
FittedCount(c) ==
    Cardinality({k \in 1..Len(Estimators) :
                    \A j \in 1..k : c[Estimators[j]] = "fitted"})

\* train_classifiers() that raises while it fits estimator k + 1: the
\* first k estimators have been fitted, nothing else has been assigned
train_classifiers_Raises(c, k) ==
    IF FittedCount(c) >= k THEN c
    ELSE ClassifierState(k, c.performance_metrics, c.is_trained)

\* train_classifiers() that completes
train_classifiers(c) == ClassifierState(Len(Estimators), "metrics", TRUE)

ValueError == [kind |-> "ValueError"]
NotFittedError == [kind |-> "NotFittedError"]

\* the dictionary of the four probabilities and of their mean
Predictions(t) ==
    [kind |-> "predictions", text |-> t,
     keys |-> <<"occupation_gap", "agency_gap", "appearance_focus",
                "relationship_defining", "overall">>]

\* Mutant: predict_bias without the check of is_trained.
predict_bias_Unguarded(c, t) ==
    IF FittedCount(c) < Len(Estimators) THEN NotFittedError
    ELSE Predictions(t)

\* predict_bias(text): the value returned, or the exception raised
predict_bias(c, t) ==
    IF ~c.is_trained THEN ValueError
    ELSE IF FittedCount(c) < Len(Estimators) THEN NotFittedError
    ELSE Predictions(t)

\* no file at the path
NoFile == [exists |-> FALSE]

\* the file written by save_models: joblib.dump of model_data
save_models(c) ==
    [exists |-> TRUE,
     vectorizer |-> c.vectorizer,
     occupation_classifier |-> c.occupation_classifier,
     agency_classifier |-> c.agency_classifier,
     appearance_classifier |-> c.appearance_classifier,
     relationship_classifier |-> c.relationship_classifier,
     performance_metrics |-> c.performance_metrics,
     is_trained |-> c.is_trained]

\* the fields assigned by load_models from the dictionary read
load_models(model_data) ==
    [vectorizer |-> model_data.vectorizer,
     occupation_classifier |-> model_data.occupation_classifier,
     agency_classifier |-> model_data.agency_classifier,
     appearance_classifier |-> model_data.appearance_classifier,
     relationship_classifier |-> model_data.relationship_classifier,
     performance_metrics |-> model_data.performance_metrics,
     is_trained |-> model_data.is_trained]

(***************************************************************************)
(* Classifier specification: the calls a program makes on a classifier,    *)
(* in any order; a new classifier may be constructed at any time (another  *)
(* run of the program), the model files stay.                              *)
(***************************************************************************)
Paths == {"models/bias_classifier.joblib", "models/backup.joblib"}

ClassifierTexts == {"Beautiful Sonia, daughter of Mr. Saxena", PriyaSample}

InitClassifier ==
    /\ classifier = constructed_classifier
    /\ files = [p \in Paths |-> NoFile]
    /\ text = ""
    /\ results = <<>>
    /\ pc = "constructed"
    /\ characters = <<>>
    /\ scores = NoScores
    /\ bias_types = <<>>
    /\ rng = <<>>
    /\ llm = NotCalled
    /\ profession_additions = <<>>
    /\ units = <<>>
    /\ calls = 0
    /\ num_alternatives = 0
    /\ count = 0

\* what no method of the classifier touches
ClassifierFrame ==
    UNCHANGED <<characters, scores, bias_types, rng, llm,
                profession_additions, units, calls, num_alternatives, count>>

Construct ==
    /\ classifier' = constructed_classifier
    /\ pc' = "constructed"
    /\ results' = <<>>
    /\ UNCHANGED <<text, files>>
    /\ ClassifierFrame

TrainClassifiers ==
    /\ classifier' = train_classifiers(classifier)
    /\ pc' = "trained"
    /\ results' = <<classifier'.performance_metrics>>
    /\ UNCHANGED <<text, files>>
    /\ ClassifierFrame

TrainClassifiersRaises(k) ==
    /\ classifier' = train_classifiers_Raises(classifier, k)
    /\ pc' = "train_raised"
    /\ results' = <<>>
    /\ UNCHANGED <<text, files>>
    /\ ClassifierFrame

\* the caller gets the predictions, or the exception
PredictReturns(out) ==
    /\ results' = IF out.kind = "predictions" THEN <<out>> ELSE <<>>
    /\ pc' = CASE out.kind = "predictions" -> "predicted"
               [] out.kind = "ValueError" -> "predict_raised"
               [] OTHER -> "predict_not_fitted"

PredictBias(t) ==
    /\ text' = t
    /\ PredictReturns(predict_bias(classifier, t))
    /\ UNCHANGED <<classifier, files>>
    /\ ClassifierFrame

SaveModels(filepath) ==
    /\ files' = [files EXCEPT ![filepath] = save_models(classifier)]
    /\ pc' = "saved"
    /\ results' = <<>>
    /\ UNCHANGED <<text, classifier>>
    /\ ClassifierFrame

\* joblib.load raises FileNotFoundError when there is no file
LoadModels(filepath) ==
    /\ IF files[filepath] = NoFile
       THEN pc' = "load_raised" /\ UNCHANGED classifier
       ELSE pc' = "loaded" /\ classifier' = load_models(files[filepath])
    /\ results' = <<>>
    /\ UNCHANGED <<text, files>>
    /\ ClassifierFrame

NextClassifier ==
    \/ Construct
    \/ TrainClassifiers
    \/ \E k \in 0..(Len(Estimators) - 1) : TrainClassifiersRaises(k)
    \/ \E t \in ClassifierTexts : PredictBias(t)
    \/ \E filepath \in Paths : SaveModels(filepath)
    \/ \E filepath \in Paths : LoadModels(filepath)

SpecClassifier == InitClassifier /\ [][NextClassifier]_vars

(***************************************************************************)
(* Claims about the classifier, checked under SpecClassifier.              *)
(***************************************************************************)
\* the step is a call of predict_bias
Predicted == pc' \in {"predicted", "predict_raised", "predict_not_fitted"}

\* C25: predict_bias on a classifier that is not trained raises the
\* explicit error and leaves the classifier and the files as they were;
\* it returns predictions only when is_trained holds; is_trained becomes
\* true only when train_classifiers completes or load_models loads a file,
\* and a file says is_trained only when it was saved from a classifier
\* that was trained.
C25_PredictRequiresTraining ==
    [][/\ (Predicted /\ ~classifier.is_trained) =>
              /\ pc' = "predict_raised"
              /\ results' = <<>>
              /\ classifier' = classifier
              /\ files' = files
       /\ (Predicted /\ results' # <<>>) => classifier.is_trained
       /\ (classifier'.is_trained /\ ~classifier.is_trained) =>
              \/ pc' = "trained"
              \/ /\ pc' = "loaded"
                 /\ \E p \in Paths : /\ files[p] # NoFile
                                     /\ files[p].is_trained
                                     /\ classifier' = load_models(files[p])
       /\ \A p \in Paths :
              (files'[p] # files[p] /\ files'[p].is_trained) =>
                  classifier.is_trained]_vars

\* predict_bias has raised on a classifier that was constructed after a
\* trained one was saved, and whose own training stopped after the
\* vectorizer and two classifiers had been fitted
C25_Witness ==
    /\ pc = "predict_raised"
    /\ ~classifier.is_trained
    /\ FittedCount(classifier) = 3
    /\ results = <<>>
    /\ \E p \in Paths : files[p] # NoFile /\ files[p].is_trained

(***************************************************************************)
(* Claim about the reported bias level, checked under SpecExtract.         *)
(***************************************************************************)
\* C26: the bias level reported by analyze_movie_script is "high" exactly
\* when overall > 60, "medium" exactly when overall is between 30 and 60
\* inclusive, and "low" exactly when overall < 30.
C26_BiasLevelBands ==
    pc = "analyzed" =>
        LET level == results[1].bias_level
            overall == scores.overall
        IN  /\ level = "high" <=> RLess(Rat(60, 1), overall)
            /\ level = "medium" <=> /\ RLeq(Rat(30, 1), overall)
                                    /\ RLeq(overall, Rat(60, 1))
            /\ level = "low" <=> RLess(overall, Rat(30, 1))

====
